---------------------------- MODULE Spec2Model ----------------------------
(***************************************************************************)
(* Live status coordination layer of openclaw:                             *)
(*   - text-variant ThreadStatusManager  (src/slack/threading-tool-context) *)
(*   - phase/counter ThreadStatusManager (src/slack/monitor/thread-status)  *)
(*   - active-run registry               (src/agents/pi-embedded-runner)    *)
(* Each component has its own specification (SpecText, SpecPhase,          *)
(* SpecRuns); the variables of the other components stay at their initial  *)
(* value.  JavaScript runs every handler to completion, so one action is    *)
(* one synchronous handler: a caller's call, a timer callback, or the       *)
(* continuation that runs when an awaited push settles.                     *)
(***************************************************************************)
EXTENDS Integers, Sequences, FiniteSets, TLC

VARIABLES
    \* ---- text variant (threading-tool-context.ts)
    managersT,   \* module-level Map `managers`, one key: instance id or None
    mgrT,        \* the ThreadStatusManager instances (private fields)
    handlesT,    \* the handle closures returned by acquire()
    ghostT,      \* history: what each instance did since its last release
    evT,         \* history: the handler that ran last and the push it issued
    \* ---- phase variant (monitor/thread-status.ts)
    managersP, mgrP, handlesP, evP,
    \* ---- active-run registry (runs.ts)
    ACTIVE_EMBEDDED_RUNS, SESSION_KEY_TO_SESSION_ID, EMBEDDED_RUN_WAITERS,
    waiters, evR,
    regKeyR,     \* history: the sessionKey each registered run was given last
                 \* (kept for the sessionIds in its domain)
    \* ---- TypingController (createTypingController)
    paramsC,     \* the parameters the controller was created with
    ctl,         \* its closure variables, timers and suspended calls
    evC          \* history: the handler that ran last, the callbacks it invoked

varsT == <<managersT, mgrT, handlesT, ghostT, evT>>
varsP == <<managersP, mgrP, handlesP, evP>>
varsR == <<ACTIVE_EMBEDDED_RUNS, SESSION_KEY_TO_SESSION_ID,
           EMBEDDED_RUN_WAITERS, waiters, evR, regKeyR>>
varsC == <<paramsC, ctl, evC>>
vars  == <<varsT, varsP, varsR, varsC>>

\* ---- bounds of the model ------------------------------------------------
MaxMgrs     == 1   \* manager instances of a variant reachable at one time
MaxHandles  == 2   \* unreleased handle closures at one time
MaxInFlight == 2   \* calls of the injected push function awaiting settlement
MaxSeconds  == 2   \* counter ticks of the phase variant
MaxWaiters  == 2   \* waitForEnd promises that exist at one time
MaxCallWaiters == 1  \* pending waitForEnd promises next to lookups and signals

None      == 0
NoPush    == "<no push>"

\* the statuses callers set, and the graceText parameter of the manager
StatusTexts == {"", "a"}
graceText   == "g"

(***************************************************************************)
(*                    TEXT VARIANT  ThreadStatusManager                     *)
(***************************************************************************)

\* the instance slots
MgrIds == DOMAIN mgrT

\* field initialisers of class ThreadStatusManager; ticks/clears count the
\* calls of pushFn that pushTick / pushOnce are awaiting
NewManagerT ==
    [currentText |-> "", activeHandles |-> 0, pushTimer |-> FALSE,
     graceTimer |-> FALSE, pushing |-> FALSE, ticks |-> 0, clears |-> 0]

\* history of an instance since its handle count last dropped to 0 with the
\* loop running: "grace" (grace window open), "stray" (a push other than
\* graceText was issued in the window), "nograce" / "expired" (the clearing
\* push was issued on release / on grace expiry), "nograce2" / "expired2" (a
\* further push was issued after the clearing push); "none" otherwise
NewGhostT == "none"

\* The handle closures acquire() returns differ only in their `released` flag
\* and the instance they close over, so they are kept as counts: unreleased[m]
\* closures of instance m have released = false; lastReleased is the instance
\* of the released closure (released = true) a caller still holds, if any;
\* tracked (history) is the instance of the unreleased closure that was
\* acquired last while a grace timer was pending.
NewHandles(n) ==
    [unreleased |-> [m \in 1..n |-> 0], lastReleased |-> None,
     tracked |-> None]

\* nothing can reach instance m any more: not in the Map, no unreleased
\* handle, no timer, no pending promise
UnreachableT(reg, ms, hs, m) ==
    /\ reg # m
    /\ hs.unreleased[m] = 0
    /\ ~ms[m].pushTimer /\ ~ms[m].graceTimer
    /\ ms[m].ticks = 0 /\ ms[m].clears = 0

\* unreachable instances are collected: their slot holds a blank object
CollectT(reg, ms, hs) ==
    [m \in DOMAIN ms |->
        IF UnreachableT(reg, ms, hs, m) THEN NewManagerT ELSE ms[m]]
CollectGhostT(reg, ms, hs, gs) ==
    [m \in DOMAIN ms |->
        IF UnreachableT(reg, ms, hs, m) THEN NewGhostT ELSE gs[m]]

\* calls of the injected push function of instance m that have not settled
InFlightT(m) == mgrT[m].ticks + mgrT[m].clears

\* the unreleased closures callers hold, over all instances
RECURSIVE SumTo(_, _)
SumTo(f, k) == IF k = 0 THEN 0 ELSE f[k] + SumTo(f, k - 1)
HeldT == SumTo(handlesT.unreleased, Cardinality(MgrIds))

cancelGraceT(mg) == [mg EXCEPT !.graceTimer = FALSE]
stopLoopT(mg)    == [mg EXCEPT !.pushTimer = FALSE]

\* pushTick: skipped while a push is in flight, else calls pushFn(currentText)
pushTickT(mg) ==
    IF mg.pushing
    THEN [mgr |-> mg, push |-> NoPush]
    ELSE [mgr |-> [mg EXCEPT !.pushing = TRUE, !.ticks = @ + 1],
          push |-> mg.currentText]

\* pushOnce(text): calls pushFn(text) whatever the in-flight flag says
pushOnceT(mg, text) ==
    [mgr |-> [mg EXCEPT !.clears = @ + 1], push |-> text]

\* startPushLoop: immediate first pushTick, then the interval timer
startPushLoopT(mg) ==
    LET r == pushTickT(mg)
    IN  [mgr |-> [r.mgr EXCEPT !.pushTimer = TRUE], push |-> r.push]

releasedT_Never(hd) == FALSE

\* the `released` flag of the handle closure hd = <<instance, flag>>
releasedT(hd) == hd[2]

\* the closures callers can call: an unreleased one of instance m, or the
\* released one they kept
HandleIdsT ==
    {hd \in MgrIds \X BOOLEAN :
        IF hd[2] THEN handlesT.lastReleased = hd[1]
        ELSE handlesT.unreleased[hd[1]] > 0}

\* history: a push issued after the clearing push of an instance
NotePushT(g, push) ==
    CASE push = NoPush -> g
      [] g = "grace"   -> IF push = graceText THEN g ELSE "stray"
      [] g = "nograce" -> "nograce2"
      [] g = "expired" -> "expired2"
      [] OTHER         -> g

\* history: what the last handler did. inert: it was a call on a released
\* closure; push: the text it handed to pushFn; once: through pushOnce;
\* onError: the handler was the catch of a rejected push and called onError
EvT(inert, push, once) ==
    [inert |-> inert, push |-> push, once |-> once, onError |-> FALSE]

\* no manager, no handle; n instance slots
InitTn(n) ==
    /\ managersT = None
    /\ mgrT = [m \in 1..n |-> NewManagerT]
    /\ handlesT = NewHandles(n)
    /\ ghostT = [m \in 1..n |-> NewGhostT]
    /\ evT = EvT(FALSE, NoPush, FALSE)
InitT == InitTn(MaxMgrs)
\* one more instance slot: room for an instance that left the Map while a
\* caller still holds a handle of it, next to its successor
InitTWide == InitTn(MaxMgrs + 1)

\* commit a handler's result: collect unreachable instances, record the event
CommitT(reg, ms, hs, gs, ev) ==
    /\ managersT' = reg
    /\ mgrT' = CollectT(reg, ms, hs)
    /\ handlesT' = hs
    /\ ghostT' = CollectGhostT(reg, ms, hs, gs)
    /\ evT' = ev
    /\ UNCHANGED <<varsP, varsR, varsC>>

\* acquireThreadStatus(params) and ThreadStatusManager.acquire
acquireThreadStatusT ==
    /\ HeldT < MaxHandles
    /\ managersT = None =>
          \E m \in MgrIds : UnreachableT(managersT, mgrT, handlesT, m)
    /\ LET m == IF managersT # None THEN managersT
                ELSE CHOOSE x \in MgrIds :
                   /\ UnreachableT(managersT, mgrT, handlesT, x)
                   /\ \A y \in MgrIds :
                         UnreachableT(managersT, mgrT, handlesT, y) => x <= y
           mg == cancelGraceT([mgrT[m] EXCEPT !.activeHandles = @ + 1])
           pending == \E x \in MgrIds : mgrT[x].graceTimer
       IN  CommitT(m, [mgrT EXCEPT ![m] = mg],
                   [handlesT EXCEPT !.unreleased[m] = @ + 1,
                                    !.tracked = IF pending THEN m ELSE @],
                   [ghostT EXCEPT ![m] = NewGhostT],
                   EvT(FALSE, NoPush, FALSE))

\* handle.setStatus(text)
setStatusT(hd, text) ==
    /\ hd \in HandleIdsT
    /\ IF releasedT(hd)
       THEN CommitT(managersT, mgrT, handlesT, ghostT,
                    EvT(hd[2], NoPush, FALSE))
       ELSE LET m  == hd[1]
                mg == [mgrT[m] EXCEPT !.currentText = text]
                r  == IF text # "" /\ ~mg.pushTimer
                      THEN startPushLoopT(mg)
                      ELSE [mgr |-> mg, push |-> NoPush]
            IN  /\ r.push # NoPush => InFlightT(m) < MaxInFlight
                /\ CommitT(managersT, [mgrT EXCEPT ![m] = r.mgr], handlesT,
                           [ghostT EXCEPT ![m] = NotePushT(@, r.push)],
                           EvT(hd[2], r.push, FALSE))

\* ThreadStatusManager.releaseHandle(shouldGrace); graceResult is what
\* shouldGrace() returned, "n/a" when no shouldGrace was given.  The result
\* names the new instance, whether destroy() ran, and the push issued.
releaseHandleT(mg0, graceResult) ==
    LET mg == [mg0 EXCEPT !.activeHandles =
                   IF @ - 1 > 0 THEN @ - 1 ELSE 0]
    IN  IF mg.activeHandles > 0
        THEN [mgr |-> mg, destroy |-> FALSE, push |-> NoPush, rel |-> "none"]
        ELSE IF ~mg.pushTimer
        THEN [mgr |-> stopLoopT(cancelGraceT(mg)), destroy |-> TRUE,
              push |-> NoPush, rel |-> "none"]
        ELSE IF graceResult = "false"
        THEN LET r == pushOnceT([mg EXCEPT !.currentText = ""], "")
             IN  [mgr |-> r.mgr, destroy |-> FALSE, push |-> r.push,
                  rel |-> "nograce"]
        ELSE [mgr |-> [mg EXCEPT !.currentText = graceText,
                                 !.graceTimer = TRUE],
              destroy |-> FALSE, push |-> NoPush, rel |-> "grace"]

\* handle.release(); isTracked: the closure is the one `tracked` follows
releaseT(hd, isTracked, graceResult) ==
    /\ hd \in HandleIdsT
    /\ isTracked => ~hd[2] /\ handlesT.tracked = hd[1]
    /\ ~isTracked /\ ~hd[2] /\ handlesT.tracked = hd[1]
          => handlesT.unreleased[hd[1]] > 1
    /\ IF releasedT(hd)
       THEN CommitT(managersT, mgrT, handlesT, ghostT,
                    EvT(hd[2], NoPush, FALSE))
       ELSE LET m == hd[1]
                r == releaseHandleT(mgrT[m], graceResult)
            IN  /\ r.push # NoPush => InFlightT(m) < MaxInFlight
                /\ CommitT(IF r.destroy THEN None ELSE managersT,
                           [mgrT EXCEPT ![m] = r.mgr],
                           [handlesT EXCEPT
                               !.unreleased[m] = IF hd[2] THEN @ ELSE @ - 1,
                               !.lastReleased = m,
                               !.tracked = IF isTracked THEN None ELSE @],
                           [ghostT EXCEPT ![m] =
                               IF r.rel = "none" THEN @ ELSE r.rel],
                           EvT(hd[2], r.push, r.push # NoPush))

\* the setInterval callback of startPushLoop
pushTimerFireT(m) ==
    /\ mgrT[m].pushTimer
    /\ LET r == pushTickT(mgrT[m])
       IN  /\ r.push # NoPush => InFlightT(m) < MaxInFlight
           /\ CommitT(managersT, [mgrT EXCEPT ![m] = r.mgr], handlesT,
                      [ghostT EXCEPT ![m] = NotePushT(@, r.push)],
                      EvT(FALSE, r.push, FALSE))

\* the setTimeout callback of releaseHandle (grace end)
graceTimerFireT(m) ==
    /\ mgrT[m].graceTimer
    /\ InFlightT(m) < MaxInFlight
    /\ LET r == pushOnceT([mgrT[m] EXCEPT !.graceTimer = FALSE,
                                          !.currentText = ""], "")
       IN  CommitT(managersT, [mgrT EXCEPT ![m] = r.mgr], handlesT,
                   [ghostT EXCEPT ![m] = "expired"],
                   EvT(FALSE, r.push, TRUE))

pushTickSettleT_FlagStuck(m, rejected) ==
    /\ mgrT[m].ticks > 0
    /\ CommitT(managersT,
               [mgrT EXCEPT ![m].ticks = @ - 1, ![m].pushing = rejected],
               handlesT, ghostT,
               [EvT(FALSE, NoPush, FALSE) EXCEPT !.onError = rejected])

\* the awaited pushFn call of pushTick settles (resolved or rejected: the
\* catch forwards to onError, the finally clears the flag either way)
pushTickSettleT(m, rejected) ==
    /\ mgrT[m].ticks > 0
    /\ CommitT(managersT,
               [mgrT EXCEPT ![m].ticks = @ - 1, ![m].pushing = FALSE],
               handlesT, ghostT,
               [EvT(FALSE, NoPush, FALSE) EXCEPT !.onError = rejected])

\* stopAndDestroy / destroy: stop the loop, cancel grace, managers.delete(key)
stopAndDestroyT(mg) == stopLoopT(cancelGraceT(stopLoopT(mg)))

\* the awaited pushFn call of pushOnce("") settles (a rejection is caught
\* and forwarded to onError) and its .finally runs stopAndDestroy
pushOnceSettleT(m, rejected) ==
    /\ mgrT[m].clears > 0
    /\ CommitT(None,
               [mgrT EXCEPT ![m] = stopAndDestroyT([@ EXCEPT !.clears = @ - 1])],
               handlesT, ghostT,
               [EvT(FALSE, NoPush, FALSE) EXCEPT !.onError = rejected])

NextT ==
    \/ acquireThreadStatusT
    \/ \E hd \in MgrIds \X BOOLEAN, text \in StatusTexts : setStatusT(hd, text)
    \/ \E hd \in MgrIds \X BOOLEAN, tr \in BOOLEAN,
          g \in {"n/a", "true", "false"} : releaseT(hd, tr, g)
    \/ \E m \in MgrIds : pushTimerFireT(m)
    \/ \E m \in MgrIds : graceTimerFireT(m)
    \/ \E m \in MgrIds, rejected \in BOOLEAN : pushTickSettleT(m, rejected)
    \/ \E m \in MgrIds, rejected \in BOOLEAN : pushOnceSettleT(m, rejected)

(***************************************************************************)
(*                PHASE / COUNTER VARIANT  ThreadStatusManager              *)
(***************************************************************************)

StatusPhase == {"reading", "thinking", "reasoning"}
PHASE_LABELS ==
    [reading |-> "reading messages...", thinking |-> "thinking",
     reasoning |-> "reasoning"]

\* formatStatus: the fixed label for reading, else "<label> <seconds>s"
\* (the pieces of the template string, in order)
formatStatus(phase, seconds) ==
    IF phase = "reading" THEN <<PHASE_LABELS.reading>>
    ELSE <<PHASE_LABELS[phase], " ", seconds, "s">>

PIds == DOMAIN mgrP

\* what a handler that called pushFn with nothing is recorded to have pushed
\* (no formatted status is empty)
NoPushP == <<>>

\* field initialisers; pushes counts the pushFn calls pushOnce is awaiting,
\* intervals the setInterval timers of setPhase that were not cleared
\* (counterTimer tells whether the field refers to one)
NewManagerP ==
    [phase |-> "null", seconds |-> 0, activeHandles |-> 0,
     counterTimer |-> FALSE, graceTimer |-> FALSE, pushing |-> FALSE,
     pushes |-> 0, intervals |-> 0]

UnreachableP(reg, ms, hs, m) ==
    /\ reg # m
    /\ hs.unreleased[m] = 0
    /\ ms[m].intervals = 0 /\ ~ms[m].graceTimer
    /\ ms[m].pushes = 0

CollectP(reg, ms, hs) ==
    [m \in DOMAIN ms |->
        IF UnreachableP(reg, ms, hs, m) THEN NewManagerP ELSE ms[m]]

HeldP == SumTo(handlesP.unreleased, Cardinality(PIds))

\* getFormattedStatus: null when no phase was set
getFormattedStatus(mg) ==
    IF mg.phase = "null" THEN "null" ELSE formatStatus(mg.phase, mg.seconds)

cancelGraceP(mg) == [mg EXCEPT !.graceTimer = FALSE]
stopCounter_LeavesTimer(mg) == mg

\* stopCounter: clearInterval of the timer the field refers to, if any
stopCounter(mg) ==
    [mg EXCEPT !.counterTimer = FALSE,
               !.intervals = IF mg.counterTimer THEN @ - 1 ELSE @]

pushOnceP_Ungated(mg, text) ==
    [mgr |-> [mg EXCEPT !.pushing = TRUE, !.pushes = @ + 1], push |-> text]

\* pushOnce(text): returns at once while a push is in flight, else calls
\* pushFn(text)
pushOnceP(mg, text) ==
    IF mg.pushing
    THEN [mgr |-> mg, push |-> NoPushP]
    ELSE [mgr |-> [mg EXCEPT !.pushing = TRUE, !.pushes = @ + 1],
          push |-> text]

setPhase_KeepsTimer(mg0, phase) ==
    LET mg == [mg0 EXCEPT !.phase = phase, !.seconds = 0]
        r  == pushOnceP(mg, formatStatus(phase, 0))
    IN  [mgr |-> IF phase # "reading"
                 THEN [r.mgr EXCEPT !.counterTimer = TRUE, !.intervals = @ + 1]
                 ELSE r.mgr,
         push |-> r.push]

\* setPhase(phase)
setPhase(mg0, phase) ==
    LET mg == stopCounter([mg0 EXCEPT !.phase = phase, !.seconds = 0])
        r  == pushOnceP(mg, formatStatus(phase, 0))
    IN  [mgr |-> IF phase # "reading"
                 THEN [r.mgr EXCEPT !.counterTimer = TRUE, !.intervals = @ + 1]
                 ELSE r.mgr,
         push |-> r.push]

\* destroy (and stopAndDestroy): cancel grace, stop the counter; the caller
\* removes the key from the Map
destroyP(mg) == stopCounter(cancelGraceP(mg))

releaseHandleP_CounterRuns(mg0, graceResult) ==
    LET mg == [mg0 EXCEPT !.activeHandles =
                   IF @ - 1 > 0 THEN @ - 1 ELSE 0]
    IN  IF mg.activeHandles > 0
        THEN [mgr |-> mg, destroy |-> FALSE]
        ELSE IF mg.phase = "null"
        THEN [mgr |-> destroyP(mg), destroy |-> TRUE]
        ELSE IF graceResult = "false"
        THEN [mgr |-> destroyP(stopCounter(mg)), destroy |-> TRUE]
        ELSE [mgr |-> [mg EXCEPT !.graceTimer = TRUE], destroy |-> FALSE]

releaseHandleP_GraceWithoutPhase(mg0, graceResult) ==
    LET mg == [mg0 EXCEPT !.activeHandles =
                   IF @ - 1 > 0 THEN @ - 1 ELSE 0]
    IN  IF mg.activeHandles > 0
        THEN [mgr |-> mg, destroy |-> FALSE]
        ELSE IF graceResult = "false"
        THEN [mgr |-> destroyP(stopCounter(mg)), destroy |-> TRUE]
        ELSE [mgr |-> [stopCounter(mg) EXCEPT !.graceTimer = TRUE],
              destroy |-> FALSE]

\* releaseHandle(shouldGrace)
releaseHandleP(mg0, graceResult) ==
    LET mg == [mg0 EXCEPT !.activeHandles =
                   IF @ - 1 > 0 THEN @ - 1 ELSE 0]
    IN  IF mg.activeHandles > 0
        THEN [mgr |-> mg, destroy |-> FALSE]
        ELSE IF mg.phase = "null"
        THEN [mgr |-> destroyP(mg), destroy |-> TRUE]
        ELSE IF graceResult = "false"
        THEN [mgr |-> destroyP(stopCounter(mg)), destroy |-> TRUE]
        ELSE [mgr |-> [stopCounter(mg) EXCEPT !.graceTimer = TRUE],
              destroy |-> FALSE]

releasedP_Never(hd) == FALSE

\* the `released` flag of the handle closure hd = <<instance, flag>>
releasedP(hd) == hd[2]

HandleIdsP ==
    {hd \in PIds \X BOOLEAN :
        IF hd[2] THEN handlesP.lastReleased = hd[1]
        ELSE handlesP.unreleased[hd[1]] > 0}

\* history: what the last handler did. inert: a call on a released closure;
\* set: the phase handed to setStatus on an unreleased closure; push: the
\* text handed to pushFn; dropped: a push was asked for and not made;
\* paused: the handler was pause() on an unreleased closure; unset: it was
\* the release() of the last handle of a manager with no phase set;
\* onError: the handler was the catch of a rejected push and called onError;
\* ret: <<function, key, value>> of the query that returned last, else <<>>
EvP(inert, set, r, asked) ==
    [inert |-> inert, set |-> set, push |-> r.push,
     dropped |-> asked /\ r.push = NoPushP, paused |-> FALSE,
     unset |-> FALSE, onError |-> FALSE, ret |-> <<>>]
NoEvP ==
    [inert |-> FALSE, set |-> "none", push |-> NoPushP, dropped |-> FALSE,
     paused |-> FALSE, unset |-> FALSE, onError |-> FALSE, ret |-> <<>>]

InitPn(n) ==
    /\ managersP = None
    /\ mgrP = [m \in 1..n |-> NewManagerP]
    /\ handlesP = NewHandles(n)
    /\ evP = NoEvP
InitP == InitPn(MaxMgrs)

CommitP(reg, ms, hs, ev) ==
    /\ managersP' = reg
    /\ mgrP' = CollectP(reg, ms, hs)
    /\ handlesP' = hs
    /\ evP' = ev
    /\ UNCHANGED <<varsT, varsR, varsC>>

\* acquireThreadStatus(params) and ThreadStatusManager.acquire
acquireThreadStatusP ==
    /\ HeldP < MaxHandles
    /\ managersP = None =>
          \E m \in PIds : UnreachableP(managersP, mgrP, handlesP, m)
    /\ LET m == IF managersP # None THEN managersP
                ELSE CHOOSE x \in PIds :
                   /\ UnreachableP(managersP, mgrP, handlesP, x)
                   /\ \A y \in PIds :
                         UnreachableP(managersP, mgrP, handlesP, y) => x <= y
           mg == cancelGraceP([mgrP[m] EXCEPT !.activeHandles = @ + 1])
       IN  CommitP(m, [mgrP EXCEPT ![m] = mg],
                   [handlesP EXCEPT !.unreleased[m] = @ + 1], NoEvP)

\* handle.setStatus(phase)
setStatusP(hd, phase) ==
    /\ hd \in HandleIdsP
    /\ IF releasedP(hd)
       THEN CommitP(managersP, mgrP, handlesP, [NoEvP EXCEPT !.inert = hd[2]])
       ELSE LET r == setPhase(mgrP[hd[1]], phase)
            IN  CommitP(managersP, [mgrP EXCEPT ![hd[1]] = r.mgr], handlesP,
                        EvP(hd[2], phase, r, TRUE))

\* handle.pause()
pauseP(hd) ==
    /\ hd \in HandleIdsP
    /\ IF releasedP(hd)
       THEN CommitP(managersP, mgrP, handlesP, [NoEvP EXCEPT !.inert = hd[2]])
       ELSE CommitP(managersP, [mgrP EXCEPT ![hd[1]] = stopCounter(@)],
                    handlesP, [NoEvP EXCEPT !.paused = TRUE])

\* handle.release()
releaseP(hd, graceResult) ==
    /\ hd \in HandleIdsP
    /\ IF releasedP(hd)
       THEN CommitP(managersP, mgrP, handlesP, [NoEvP EXCEPT !.inert = hd[2]])
       ELSE LET m == hd[1]
                r == releaseHandleP(mgrP[m], graceResult)
            IN  CommitP(IF r.destroy THEN None ELSE managersP,
                        [mgrP EXCEPT ![m] = r.mgr],
                        [handlesP EXCEPT
                            !.unreleased[m] = IF hd[2] THEN @ ELSE @ - 1,
                            !.lastReleased = m],
                        [NoEvP EXCEPT !.inert = hd[2],
                                      !.unset = r.mgr.activeHandles = 0
                                                /\ mgrP[m].phase = "null"])

\* the setInterval callback of setPhase (1 s counter)
counterTimerFireP(m) ==
    /\ mgrP[m].intervals > 0
    /\ mgrP[m].seconds < MaxSeconds
    /\ LET mg == [mgrP[m] EXCEPT !.seconds = @ + 1]
           r  == pushOnceP(mg, formatStatus(mg.phase, mg.seconds))
       IN  CommitP(managersP, [mgrP EXCEPT ![m] = r.mgr], handlesP,
                   EvP(FALSE, "none", r, TRUE))

\* the setTimeout callback of releaseHandle (grace end): stopAndDestroy
graceTimerFireP(m) ==
    /\ mgrP[m].graceTimer
    /\ CommitP(None,
               [mgrP EXCEPT ![m] = destroyP(stopCounter([@ EXCEPT
                                       !.graceTimer = FALSE]))],
               handlesP, NoEvP)

\* pushCurrentStatus(key) and ThreadStatusManager.rePush
pushCurrentStatus ==
    IF managersP = None \/ getFormattedStatus(mgrP[managersP]) = "null"
    THEN CommitP(managersP, mgrP, handlesP, NoEvP)
    ELSE LET r == pushOnceP(mgrP[managersP],
                            getFormattedStatus(mgrP[managersP]))
         IN  CommitP(managersP, [mgrP EXCEPT ![managersP] = r.mgr], handlesP,
                     EvP(FALSE, "none", r, TRUE))

\* the awaited pushFn call of pushOnce settles (resolved, or rejected and
\* forwarded to onError); the finally clears the flag
pushSettleP(m, rejected) ==
    /\ mgrP[m].pushes > 0
    /\ CommitP(managersP,
               [mgrP EXCEPT ![m].pushes = @ - 1, ![m].pushing = FALSE],
               handlesP, [NoEvP EXCEPT !.onError = rejected])

\* the key every acquireThreadStatus call of the model passes, and the keys
\* the queries are asked about (the second never has a Map entry)
ThreadKey == "C1:T1"
ThreadKeys == {ThreadKey, "C2:T2"}

\* managers.get(key): None for undefined
managersGet(key) == IF key = ThreadKey THEN managersP ELSE None

isThreadActive_WhileGrace(key) ==
    LET mgr == managersGet(key)
    IN  IF mgr # None
        THEN mgrP[mgr].activeHandles > 0 \/ mgrP[mgr].graceTimer
        ELSE FALSE

\* isThreadActive(key), with ThreadStatusManager.isActive
isThreadActive(key) ==
    LET mgr == managersGet(key)
    IN  IF mgr # None THEN mgrP[mgr].activeHandles > 0 ELSE FALSE

\* getCurrentStatus(key); "null" for null
getCurrentStatus(key) ==
    LET mgr == managersGet(key)
    IN  IF mgr # None THEN getFormattedStatus(mgrP[mgr]) ELSE "null"

isThreadActiveCall(key) ==
    CommitP(managersP, mgrP, handlesP,
            [NoEvP EXCEPT !.ret = <<"isThreadActive", key,
                                    isThreadActive(key)>>])

getCurrentStatusCall(key) ==
    CommitP(managersP, mgrP, handlesP,
            [NoEvP EXCEPT !.ret = <<"getCurrentStatus", key,
                                    getCurrentStatus(key)>>])

NextP ==
    \/ acquireThreadStatusP
    \/ \E hd \in PIds \X BOOLEAN, ph \in StatusPhase : setStatusP(hd, ph)
    \/ \E hd \in PIds \X BOOLEAN : pauseP(hd)
    \/ \E hd \in PIds \X BOOLEAN, g \in {"n/a", "true", "false"} :
          releaseP(hd, g)
    \/ \E m \in PIds : counterTimerFireP(m)
    \/ \E m \in PIds : graceTimerFireP(m)
    \/ pushCurrentStatus
    \/ \E m \in PIds, rejected \in BOOLEAN : pushSettleP(m, rejected)

(***************************************************************************)
(*                          ACTIVE-RUN REGISTRY                            *)
(***************************************************************************)
\* the sessionIds runs are registered under, the run handles (objects,
\* compared by identity) and the sessionKeys callers pass
SessionIds  == {"s1", "s2"}
RunHandles  == {"hA", "hB"}
SessionKeys == {"k1", "k2"}
NoHandle    == "none"
WaiterIds   == 1..MaxWaiters

\* the promise a waitForEnd call returned and, while it is registered, its
\* EmbeddedRunWaiter {resolve, timer}: st is the promise's state ("free": no
\* such promise), timer whether the setTimeout is pending, calls how often
\* resolve was called (capped at 2)
NoWaiter == [sid |-> "", st |-> "free", timer |-> FALSE, calls |-> 0]

\* Map.prototype.has / get on ACTIVE_EMBEDDED_RUNS
hasRun(sid) == sid \in SessionIds /\ ACTIVE_EMBEDDED_RUNS[sid] # NoHandle

\* calling a promise's resolve function: only the first call settles it
resolve(wr, ended) ==
    [wr EXCEPT !.st = IF @ = "pending" THEN ended ELSE @,
               !.calls = IF @ < 2 THEN @ + 1 ELSE @]

\* history: the call that ran last. op and its sessionId; match: clear() was
\* given the registered handle; woken: the waiters notifyEmbeddedRunEnded
\* resolved; made: the promise waitForEnd returned; had: a run was
\* registered for the sessionId when register or waitForEnd was called;
\* ret: what a lookup, queueMessage or abort returned; called: the method of
\* the run handle the call invoked, <<method, handle>>, or <<>>
NoCall == <<>>
EvR(op, sid, match, woken, made, had) ==
    [op |-> op, sid |-> sid, match |-> match, woken |-> woken, made |-> made,
     had |-> had, ret |-> "n/a", called |-> NoCall]

InitR ==
    /\ ACTIVE_EMBEDDED_RUNS = [s \in SessionIds |-> NoHandle]
    /\ SESSION_KEY_TO_SESSION_ID = <<>>
    /\ EMBEDDED_RUN_WAITERS = <<>>
    /\ waiters = [w \in WaiterIds |-> NoWaiter]
    /\ evR = EvR("init", "", FALSE, {}, None, FALSE)
    /\ regKeyR = <<>>

\* Map.prototype.set on SESSION_KEY_TO_SESSION_ID (entries in insertion
\* order; an existing key keeps its place)
mapSet(entries, key, id) ==
    IF \E i \in 1..Len(entries) : entries[i][1] = key
    THEN [i \in 1..Len(entries) |->
             IF entries[i][1] = key THEN <<key, id>> ELSE entries[i]]
    ELSE Append(entries, <<key, id>>)

\* the loop of clearActiveEmbeddedRun: delete the first entry whose value is
\* sessionId, then break
deleteFirstAlias(entries, sid) ==
    IF \E i \in 1..Len(entries) : entries[i][2] = sid
    THEN LET k == CHOOSE i \in 1..Len(entries) :
                     /\ entries[i][2] = sid
                     /\ \A j \in 1..(i - 1) : entries[j][2] # sid
         IN  SubSeq(entries, 1, k - 1) \o SubSeq(entries, k + 1, Len(entries))
    ELSE entries

\* Map.prototype.get on SESSION_KEY_TO_SESSION_ID; "" is undefined
mapGet(entries, key) ==
    IF \E i \in 1..Len(entries) : entries[i][1] = key
    THEN entries[CHOOSE i \in 1..Len(entries) : entries[i][1] = key][2]
    ELSE ""

\* history: the run now registered for sid was registered with key; a
\* registration without a key keeps the key of the same run (same handle)
NoteKeyR(sid, handle, key) ==
    [s \in DOMAIN regKeyR |->
        IF s # sid THEN regKeyR[s]
        ELSE IF key # "" THEN key
        ELSE IF ACTIVE_EMBEDDED_RUNS[sid] = handle THEN regKeyR[s] ELSE ""]

setActiveEmbeddedRun_KeepPrior(sid, handle, key) ==
    /\ ACTIVE_EMBEDDED_RUNS' =
           IF hasRun(sid) THEN ACTIVE_EMBEDDED_RUNS
           ELSE [ACTIVE_EMBEDDED_RUNS EXCEPT ![sid] = handle]
    /\ SESSION_KEY_TO_SESSION_ID' =
           IF key # "" THEN mapSet(SESSION_KEY_TO_SESSION_ID, key, sid)
           ELSE SESSION_KEY_TO_SESSION_ID
    /\ evR' = EvR("register", sid, FALSE, {}, None, hasRun(sid))
    /\ regKeyR' = NoteKeyR(sid, handle, key)
    /\ UNCHANGED <<EMBEDDED_RUN_WAITERS, waiters, varsT, varsP, varsC>>

resolveActiveSessionId_AnyAlias(key) == mapGet(SESSION_KEY_TO_SESSION_ID, key)

\* resolveActiveSessionId(sessionKey): the mapped sessionId when it has a
\* registered run, else undefined ("")
resolveActiveSessionId(key) ==
    LET mappedSessionId == mapGet(SESSION_KEY_TO_SESSION_ID, key)
    IN  IF mappedSessionId # "" /\ hasRun(mappedSessionId)
        THEN mappedSessionId ELSE ""

\* setActiveEmbeddedRun(sessionId, handle, sessionKey?); key "" is no key
setActiveEmbeddedRun(sid, handle, key) ==
    /\ ACTIVE_EMBEDDED_RUNS' = [ACTIVE_EMBEDDED_RUNS EXCEPT ![sid] = handle]
    /\ SESSION_KEY_TO_SESSION_ID' =
           IF key # "" THEN mapSet(SESSION_KEY_TO_SESSION_ID, key, sid)
           ELSE SESSION_KEY_TO_SESSION_ID
    /\ evR' = EvR("register", sid, FALSE, {}, None, hasRun(sid))
    /\ regKeyR' = NoteKeyR(sid, handle, key)
    /\ UNCHANGED <<EMBEDDED_RUN_WAITERS, waiters, varsT, varsP, varsC>>

\* a promise slot the callers no longer use: never made, or settled with
\* no timer left
FreeWaiter(w) ==
    \/ waiters[w].st = "free"
    \/ waiters[w].st \in {"true", "false"} /\ ~waiters[w].timer

waitForEmbeddedPiRunEnd_NoTimeout(sid) ==
    /\ \E w \in WaiterIds : FreeWaiter(w)
    /\ LET w == CHOOSE x \in WaiterIds :
                   FreeWaiter(x) /\ \A y \in WaiterIds : FreeWaiter(y) => x <= y
       IN  IF sid = "" \/ ~hasRun(sid)
           THEN /\ waiters' = [waiters EXCEPT ![w] =
                       [sid |-> sid, st |-> "true", timer |-> FALSE, calls |-> 1]]
                /\ evR' = EvR("wait", sid, FALSE, {}, w, FALSE)
                /\ UNCHANGED EMBEDDED_RUN_WAITERS
           ELSE LET set == IF sid \in DOMAIN EMBEDDED_RUN_WAITERS
                           THEN EMBEDDED_RUN_WAITERS[sid] ELSE {}
                IN  /\ waiters' = [waiters EXCEPT ![w] =
                          [sid |-> sid, st |-> "pending", timer |-> FALSE,
                           calls |-> 0]]
                    /\ EMBEDDED_RUN_WAITERS' =
                          [s \in DOMAIN EMBEDDED_RUN_WAITERS \cup {sid} |->
                              IF s = sid THEN set \cup {w}
                              ELSE EMBEDDED_RUN_WAITERS[s]]
                    /\ evR' = EvR("wait", sid, FALSE, {}, w, TRUE)
    /\ UNCHANGED <<ACTIVE_EMBEDDED_RUNS, SESSION_KEY_TO_SESSION_ID, regKeyR,
                   varsT, varsP, varsC>>

\* waitForEmbeddedPiRunEnd(sessionId, timeoutMs); sessionId "" is falsy
waitForEmbeddedPiRunEnd(sid) ==
    /\ \E w \in WaiterIds : FreeWaiter(w)
    /\ LET w == CHOOSE x \in WaiterIds :
                   FreeWaiter(x) /\ \A y \in WaiterIds : FreeWaiter(y) => x <= y
       IN  IF sid = "" \/ ~hasRun(sid)
           THEN /\ waiters' = [waiters EXCEPT ![w] =
                       [sid |-> sid, st |-> "true", timer |-> FALSE, calls |-> 1]]
                /\ evR' = EvR("wait", sid, FALSE, {}, w, FALSE)
                /\ UNCHANGED EMBEDDED_RUN_WAITERS
           ELSE LET set == IF sid \in DOMAIN EMBEDDED_RUN_WAITERS
                           THEN EMBEDDED_RUN_WAITERS[sid] ELSE {}
                IN  \* the run is still registered when the executor checks
                    \* again (line 113): the waiter stays
                    /\ waiters' = [waiters EXCEPT ![w] =
                          [sid |-> sid, st |-> "pending", timer |-> TRUE,
                           calls |-> 0]]
                    /\ EMBEDDED_RUN_WAITERS' =
                          [s \in DOMAIN EMBEDDED_RUN_WAITERS \cup {sid} |->
                              IF s = sid THEN set \cup {w}
                              ELSE EMBEDDED_RUN_WAITERS[s]]
                    /\ evR' = EvR("wait", sid, FALSE, {}, w, TRUE)
    /\ UNCHANGED <<ACTIVE_EMBEDDED_RUNS, SESSION_KEY_TO_SESSION_ID, regKeyR,
                   varsT, varsP, varsC>>

waiterTimeout_KeepsEmptySet(w) ==
    /\ waiters[w].timer
    /\ LET sid == waiters[w].sid
           inMap == sid \in DOMAIN EMBEDDED_RUN_WAITERS
                    /\ w \in EMBEDDED_RUN_WAITERS[sid]
       IN  /\ EMBEDDED_RUN_WAITERS' =
                 IF ~inMap THEN EMBEDDED_RUN_WAITERS
                 ELSE [EMBEDDED_RUN_WAITERS EXCEPT ![sid] = @ \ {w}]
           /\ waiters' = [waiters EXCEPT ![w] =
                             resolve([@ EXCEPT !.timer = FALSE], "false")]
           /\ evR' = EvR("timeout", sid, FALSE, {}, w, FALSE)
    /\ UNCHANGED <<ACTIVE_EMBEDDED_RUNS, SESSION_KEY_TO_SESSION_ID, regKeyR,
                   varsT, varsP, varsC>>

\* the setTimeout callback of a waiter: leave the set, drop an empty set
\* from the Map, resolve(false)
waiterTimeout(w) ==
    /\ waiters[w].timer
    /\ LET sid == waiters[w].sid
           inMap == sid \in DOMAIN EMBEDDED_RUN_WAITERS
                    /\ w \in EMBEDDED_RUN_WAITERS[sid]
           rest == IF inMap THEN EMBEDDED_RUN_WAITERS[sid] \ {w} ELSE {}
       IN  /\ EMBEDDED_RUN_WAITERS' =
                 IF ~inMap THEN EMBEDDED_RUN_WAITERS
                 ELSE IF rest = {}
                 THEN [s \in DOMAIN EMBEDDED_RUN_WAITERS \ {sid} |->
                          EMBEDDED_RUN_WAITERS[s]]
                 ELSE [EMBEDDED_RUN_WAITERS EXCEPT ![sid] = rest]
           /\ waiters' = [waiters EXCEPT ![w] =
                             resolve([@ EXCEPT !.timer = FALSE], "false")]
           /\ evR' = EvR("timeout", sid, FALSE, {}, w, FALSE)
    /\ UNCHANGED <<ACTIVE_EMBEDDED_RUNS, SESSION_KEY_TO_SESSION_ID, regKeyR,
                   varsT, varsP, varsC>>

clearTimer_Kept(wr) == wr

\* clearTimeout(waiter.timer)
clearTimer(wr) == [wr EXCEPT !.timer = FALSE]

notifyEmbeddedRunEnded_First(sid) ==
    IF sid \notin DOMAIN EMBEDDED_RUN_WAITERS \/ EMBEDDED_RUN_WAITERS[sid] = {}
    THEN [map |-> EMBEDDED_RUN_WAITERS, ws |-> waiters, woken |-> {}]
    ELSE LET first == CHOOSE w \in EMBEDDED_RUN_WAITERS[sid] :
                         \A x \in EMBEDDED_RUN_WAITERS[sid] : w <= x
         IN  [map |-> [s \in DOMAIN EMBEDDED_RUN_WAITERS \ {sid} |->
                          EMBEDDED_RUN_WAITERS[s]],
              ws |-> [waiters EXCEPT ![first] = resolve(clearTimer(@), "true")],
              woken |-> {first}]

\* notifyEmbeddedRunEnded(sessionId): the waiter map and the waiters after it
notifyEmbeddedRunEnded(sid) ==
    IF sid \notin DOMAIN EMBEDDED_RUN_WAITERS \/ EMBEDDED_RUN_WAITERS[sid] = {}
    THEN [map |-> EMBEDDED_RUN_WAITERS, ws |-> waiters, woken |-> {}]
    ELSE [map |-> [s \in DOMAIN EMBEDDED_RUN_WAITERS \ {sid} |->
                      EMBEDDED_RUN_WAITERS[s]],
          ws |-> [w \in WaiterIds |->
                      IF w \in EMBEDDED_RUN_WAITERS[sid]
                      THEN resolve(clearTimer(waiters[w]), "true")
                      ELSE waiters[w]],
          woken |-> EMBEDDED_RUN_WAITERS[sid]]

handleMatches_AnyHandle(sid, handle) == ACTIVE_EMBEDDED_RUNS[sid] # NoHandle

\* the identity test of clearActiveEmbeddedRun
handleMatches(sid, handle) == ACTIVE_EMBEDDED_RUNS[sid] = handle

\* clearActiveEmbeddedRun(sessionId, handle)
clearActiveEmbeddedRun(sid, handle) ==
    LET match == ACTIVE_EMBEDDED_RUNS[sid] = handle
    IN  /\ UNCHANGED <<varsT, varsP, varsC>>
        /\ IF handleMatches(sid, handle)
           THEN LET n == notifyEmbeddedRunEnded(sid)
                IN  /\ ACTIVE_EMBEDDED_RUNS' =
                          [ACTIVE_EMBEDDED_RUNS EXCEPT ![sid] = NoHandle]
                    /\ SESSION_KEY_TO_SESSION_ID' =
                          deleteFirstAlias(SESSION_KEY_TO_SESSION_ID, sid)
                    /\ EMBEDDED_RUN_WAITERS' = n.map
                    /\ waiters' = n.ws
                    /\ evR' = EvR("clear", sid, match, n.woken, None, FALSE)
                    /\ regKeyR' = [s \in DOMAIN regKeyR |->
                                       IF s = sid THEN "" ELSE regKeyR[s]]
           ELSE /\ evR' = EvR("clear", sid, match, {}, None, FALSE)
                /\ UNCHANGED <<ACTIVE_EMBEDDED_RUNS, SESSION_KEY_TO_SESSION_ID,
                               EMBEDDED_RUN_WAITERS, waiters, regKeyR>>

\* history of a call that returns a value: what it returned and the handle
\* method it invoked
EvCall(op, sid, ret, called) ==
    [EvR(op, sid, FALSE, {}, None, FALSE) EXCEPT !.ret = ret, !.called = called]

\* a call that only reads the registry
ReturnsR(ev) ==
    /\ evR' = ev
    /\ UNCHANGED <<ACTIVE_EMBEDDED_RUNS, SESSION_KEY_TO_SESSION_ID,
                   EMBEDDED_RUN_WAITERS, waiters, regKeyR, varsT, varsP, varsC>>

queueOutcome_IgnoreCompacting(sid, streaming, compacting) ==
    LET handle == ACTIVE_EMBEDDED_RUNS[sid]
    IN  IF handle = NoHandle THEN [ret |-> "false", called |-> NoCall]
        ELSE IF ~streaming THEN [ret |-> "false", called |-> NoCall]
        ELSE [ret |-> "true", called |-> <<"queueMessage", handle>>]

\* what queueEmbeddedPiMessage does given the handle's isStreaming() and
\* isCompacting(): the value returned and the handle method invoked
queueOutcome(sid, streaming, compacting) ==
    LET handle == ACTIVE_EMBEDDED_RUNS[sid]
    IN  IF handle = NoHandle THEN [ret |-> "false", called |-> NoCall]
        ELSE IF ~streaming THEN [ret |-> "false", called |-> NoCall]
        ELSE IF compacting THEN [ret |-> "false", called |-> NoCall]
        ELSE [ret |-> "true", called |-> <<"queueMessage", handle>>]

\* queueEmbeddedPiMessage(sessionId, text); streaming and compacting are what
\* the handle's isStreaming() and isCompacting() answer
queueEmbeddedPiMessage(sid, streaming, compacting) ==
    LET r == queueOutcome(sid, streaming, compacting)
    IN  ReturnsR(EvCall("queue", sid, r.ret, r.called))

\* what abortEmbeddedPiRun does: the value returned, the method invoked
abortOutcome(sid) ==
    LET handle == ACTIVE_EMBEDDED_RUNS[sid]
    IN  IF handle = NoHandle THEN [ret |-> "false", called |-> NoCall]
        ELSE [ret |-> "true", called |-> <<"abort", handle>>]

abortEmbeddedPiRun_Unregisters(sid) ==
    LET r == abortOutcome(sid)
    IN  /\ evR' = EvCall("abort", sid, r.ret, r.called)
        /\ ACTIVE_EMBEDDED_RUNS' = [ACTIVE_EMBEDDED_RUNS EXCEPT ![sid] = NoHandle]
        /\ UNCHANGED <<SESSION_KEY_TO_SESSION_ID, EMBEDDED_RUN_WAITERS, waiters,
                       regKeyR, varsT, varsP, varsC>>

\* abortEmbeddedPiRun(sessionId)
abortEmbeddedPiRun(sid) ==
    LET r == abortOutcome(sid)
    IN  ReturnsR(EvCall("abort", sid, r.ret, r.called))

\* isEmbeddedPiRunActive(sessionId)
isEmbeddedPiRunActive(sid) ==
    ReturnsR(EvCall("isActive", sid,
                    IF hasRun(sid) THEN "true" ELSE "false", NoCall))

\* isEmbeddedPiRunStreaming(sessionId); streaming is what handle.isStreaming()
\* answers
isEmbeddedPiRunStreaming(sid, streaming) ==
    ReturnsR(EvCall("isStreaming", sid,
                    IF ACTIVE_EMBEDDED_RUNS[sid] = NoHandle THEN "false"
                    ELSE IF streaming THEN "true" ELSE "false", NoCall))

\* a call of resolveActiveSessionId(sessionKey); the history keeps the
\* sessionKey where the other calls keep their sessionId
resolveActiveSessionIdCall(key) ==
    ReturnsR(EvCall("resolve", key, resolveActiveSessionId(key), NoCall))

NextR ==
    \/ \E sid \in SessionIds, h \in RunHandles, key \in SessionKeys \cup {""} :
          setActiveEmbeddedRun(sid, h, key)
    \/ \E sid \in SessionIds \cup {""} : waitForEmbeddedPiRunEnd(sid)
    \/ \E w \in WaiterIds : waiterTimeout(w)
    \/ \E sid \in SessionIds, h \in RunHandles : clearActiveEmbeddedRun(sid, h)

(***************************************************************************)
(*                            TypingController                             *)
(***************************************************************************)
\* One controller (createTypingController).  An async function runs to its
\* first await in the caller's step; what it does after the await is a step
\* of its own.  The only code after an await is the `typingTimer =
\* setInterval(...)` of startThinkingLoop / startTypingLoop.

MaxArming == 2   \* calls suspended at `await ensureStart()` at one time
MaxLeaked == 1   \* live interval timers typingTimer no longer refers to

\* the parameters of createTypingController the behaviour depends on
\* (onReplyStart given or not; defaults 6 s and 2 min)
TypingIntervalSeconds == {0, 1, 6}
TypingTtlMs == {0, 120000}
ParamsC ==
    [onReplyStart : BOOLEAN, typingIntervalSeconds : TypingIntervalSeconds,
     typingTtlMs : TypingTtlMs]
DefaultParamsC ==
    [onReplyStart |-> TRUE, typingIntervalSeconds |-> 6, typingTtlMs |-> 120000]

typingIntervalMs == paramsC.typingIntervalSeconds * 1000

\* the text handed to startTypingOnText; isSilentReplyText is called with
\* the default silentToken
SILENT_REPLY_TOKEN == "NO_REPLY"
ReplyTexts == {"", "  ", SILENT_REPLY_TOKEN, "hi"}
trim(text) == IF text = "  " THEN "" ELSE text
isSilentReplyText(text, token) == text = token

\* the closure variables.  typingTimer: the period in ms of the interval
\* timer it refers to, 0 for undefined.  typingTtlTimer: undefined, or a
\* timeout that is pending or has fired (the callback leaves the variable).
\* leaked: live interval timers no variable refers to.  arming / resuming:
\* calls suspended at `await ensureStart()`, on the trigger callback's
\* promise / on an already settled promise (resumed before any timer).
\* idleSignalled (history): markDispatchIdle() was called since the
\* controller was made or last reset for a follow-up.  cleanups (history):
\* the onCleanup calls since then.
NewController ==
    [started |-> FALSE, active |-> FALSE, runComplete |-> FALSE,
     dispatchIdle |-> FALSE, phase |-> "undefined", transitioning |-> FALSE,
     sealed |-> FALSE, typingTimer |-> 0, typingTtlTimer |-> "undefined",
     leaked |-> 0, arming |-> 0, resuming |-> 0, idleSignalled |-> FALSE,
     cleanups |-> 0]

\* a handler under way: the closure variables and the callbacks invoked so
\* far (trig: onReplyStart calls, clean: onCleanup calls, pc: the phase
\* handed to onPhaseChange)
Run(c) == [c |-> c, trig |-> 0, clean |-> 0, pc |-> "none"]

resetCycle(c) ==
    [c EXCEPT !.started = FALSE, !.active = FALSE, !.runComplete = FALSE,
              !.dispatchIdle = FALSE, !.transitioning = FALSE,
              !.phase = "undefined"]

cleanup_NotSealing(r) ==
    [r EXCEPT !.c = [resetCycle(r.c) EXCEPT
                        !.typingTtlTimer = "undefined",
                        !.typingTimer = 0,
                        !.cleanups = IF r.c.active THEN @ + 1 ELSE @],
              !.clean = IF r.c.active THEN @ + 1 ELSE @]

cleanup(r) ==
    IF r.c.sealed THEN r
    ELSE [r EXCEPT !.c = [resetCycle(r.c) EXCEPT
                             !.typingTtlTimer = "undefined",
                             !.typingTimer = 0,
                             !.sealed = TRUE,
                             !.cleanups = IF r.c.active THEN @ + 1 ELSE @],
                   !.clean = IF r.c.active THEN @ + 1 ELSE @]

refreshTypingTtl(r) ==
    IF r.c.sealed THEN r
    ELSE IF typingIntervalMs <= 0 THEN r
    ELSE IF paramsC.typingTtlMs <= 0 THEN r
    ELSE [r EXCEPT !.c.typingTtlTimer = "pending"]

isActive(c) == c.active /\ ~c.sealed

\* triggerTyping: nothing follows its await
triggerTyping(r) ==
    IF r.c.sealed THEN r
    ELSE IF paramsC.onReplyStart THEN [r EXCEPT !.trig = @ + 1]
    ELSE r

ensureStart_IgnoresRunComplete(r) ==
    IF r.c.sealed THEN r
    ELSE IF r.c.started THEN [r EXCEPT !.c.active = TRUE]
    ELSE triggerTyping([r EXCEPT !.c.active = TRUE, !.c.started = TRUE])

\* ensureStart: nothing follows its await
ensureStart(r) ==
    IF r.c.sealed THEN r
    ELSE IF r.c.runComplete THEN r
    ELSE IF r.c.started THEN [r EXCEPT !.c.active = TRUE]
    ELSE triggerTyping([r EXCEPT !.c.active = TRUE, !.c.started = TRUE])

maybeStopOnIdle_EitherFlag(r) ==
    IF ~r.c.active THEN r
    ELSE IF r.c.runComplete \/ r.c.dispatchIdle THEN cleanup(r)
    ELSE r

maybeStopOnIdle(r) ==
    IF ~r.c.active THEN r
    ELSE IF r.c.runComplete /\ r.c.dispatchIdle THEN cleanup(r)
    ELSE r

\* `await ensureStart()` of the two loop starters: ensureStart up to its
\* await, and the caller suspended (on the trigger callback when
\* ensureStart called it, else on a settled promise)
awaitEnsureStart(r) ==
    LET r1 == ensureStart(r)
    IN  IF r1.trig > r.trig
        THEN [r1 EXCEPT !.c.arming = @ + 1]
        ELSE [r1 EXCEPT !.c.resuming = @ + 1]

\* startThinkingLoop up to its await
startThinkingLoop(r) ==
    IF r.c.sealed THEN r
    ELSE IF r.c.runComplete THEN r
    ELSE LET r1 == IF r.c.phase = "undefined"
                   THEN [r EXCEPT !.c.phase = "thinking", !.pc = "thinking"]
                   ELSE r
             r2 == refreshTypingTtl(r1)
         IN  IF ~paramsC.onReplyStart THEN r2
             ELSE IF typingIntervalMs <= 0 THEN r2
             ELSE IF r2.c.typingTimer # 0 THEN r2
             ELSE awaitEnsureStart(r2)

startTypingLoop_AlwaysTriggers(r) ==
    IF r.c.sealed THEN r
    ELSE IF r.c.runComplete THEN r
    ELSE LET r1 == IF r.c.phase \in {"undefined", "thinking"}
                   THEN [r EXCEPT !.c.phase = "typing", !.pc = "typing"]
                   ELSE r
             r2 == refreshTypingTtl(r1)
         IN  IF ~paramsC.onReplyStart THEN r2
             ELSE IF typingIntervalMs <= 0 THEN r2
             ELSE IF r2.c.typingTimer # 0 THEN triggerTyping(r2)
             ELSE awaitEnsureStart(r2)

\* startTypingLoop up to its await
startTypingLoop(r) ==
    IF r.c.sealed THEN r
    ELSE IF r.c.runComplete THEN r
    ELSE LET upgraded == r.c.phase = "thinking"
             r1 == IF r.c.phase \in {"undefined", "thinking"}
                   THEN [r EXCEPT !.c.phase = "typing", !.pc = "typing"]
                   ELSE r
             r2 == refreshTypingTtl(r1)
         IN  IF ~paramsC.onReplyStart THEN r2
             ELSE IF typingIntervalMs <= 0 THEN r2
             ELSE IF r2.c.typingTimer # 0
             THEN IF upgraded THEN triggerTyping(r2) ELSE r2
             ELSE awaitEnsureStart(r2)

startTypingOnText(r, text) ==
    IF r.c.sealed THEN r
    ELSE IF trim(text) = "" THEN r
    ELSE IF SILENT_REPLY_TOKEN # "" /\ isSilentReplyText(trim(text), SILENT_REPLY_TOKEN)
    THEN r
    ELSE startTypingLoop(refreshTypingTtl(r))

markRunComplete(r) == maybeStopOnIdle([r EXCEPT !.c.runComplete = TRUE])

markDispatchIdle(r) ==
    LET r1 == maybeStopOnIdle([r EXCEPT !.c.dispatchIdle = TRUE,
                                        !.c.idleSignalled = TRUE])
    IN  IF r1.c.transitioning /\ r1.c.active /\ ~r1.c.sealed
        THEN triggerTyping([r1 EXCEPT !.c.transitioning = FALSE])
        ELSE r1

Min(a, b) == IF a <= b THEN a ELSE b

transitionToFollowup(r) ==
    IF r.c.sealed THEN r
    ELSE LET r1 == [r EXCEPT !.c.started = FALSE, !.c.runComplete = FALSE,
                             !.c.transitioning = TRUE]
             r2 == IF r1.c.phase # "thinking"
                   THEN triggerTyping([r1 EXCEPT !.c.phase = "thinking",
                                                 !.pc = "thinking"])
                   ELSE r1
         IN  IF paramsC.onReplyStart /\ typingIntervalMs > 0
             THEN [r2 EXCEPT !.c.typingTimer = Min(typingIntervalMs, 2000)]
             ELSE r2

resetForFollowup_DispatchBusy(r) ==
    [r EXCEPT !.c.typingTtlTimer = "undefined", !.c.typingTimer = 0,
              !.c.sealed = FALSE, !.c.started = FALSE, !.c.active = FALSE,
              !.c.runComplete = FALSE, !.c.transitioning = FALSE,
              !.c.dispatchIdle = FALSE, !.c.phase = "undefined",
              !.c.idleSignalled = FALSE, !.c.cleanups = 0]

resetForFollowup(r) ==
    [r EXCEPT !.c.typingTtlTimer = "undefined", !.c.typingTimer = 0,
              !.c.sealed = FALSE, !.c.started = FALSE, !.c.active = FALSE,
              !.c.runComplete = FALSE, !.c.transitioning = FALSE,
              !.c.dispatchIdle = TRUE, !.c.phase = "undefined",
              !.c.idleSignalled = FALSE, !.c.cleanups = 0]

\* `typingTimer = setInterval(..., typingIntervalMs)` after the await: the
\* timer the variable referred to, if any, is not cleared
armTypingTimer(c) ==
    [c EXCEPT !.leaked = IF c.typingTimer # 0 THEN @ + 1 ELSE @,
              !.typingTimer = typingIntervalMs]

\* history: the handler that ran last and the callbacks it invoked
NoEvC == [op |-> "init", trig |-> 0, clean |-> 0, pc |-> "none"]

InitC ==
    /\ paramsC = DefaultParamsC
    /\ ctl = NewController
    /\ evC = NoEvC

CommitC(op, r) ==
    /\ r.c.arming + r.c.resuming <= MaxArming
    /\ r.c.leaked <= MaxLeaked
    /\ ctl' = r.c
    /\ evC' = [op |-> op, trig |-> r.trig, clean |-> r.clean, pc |-> r.pc]
    /\ UNCHANGED <<paramsC, varsT, varsP, varsR>>

\* the calls of the returned object
onReplyStartC         == CommitC("onReplyStart", ensureStart(Run(ctl)))
startThinkingLoopC    == CommitC("startThinkingLoop", startThinkingLoop(Run(ctl)))
startTypingLoopC      == CommitC("startTypingLoop", startTypingLoop(Run(ctl)))
startTypingOnTextC(text) ==
    CommitC("startTypingOnText", startTypingOnText(Run(ctl), text))
refreshTypingTtlC     == CommitC("refreshTypingTtl", refreshTypingTtl(Run(ctl)))
markRunCompleteC      == CommitC("markRunComplete", markRunComplete(Run(ctl)))
markDispatchIdleC     == CommitC("markDispatchIdle", markDispatchIdle(Run(ctl)))
transitionToFollowupC ==
    CommitC("transitionToFollowup", transitionToFollowup(Run(ctl)))
resetForFollowupC     == CommitC("resetForFollowup", resetForFollowup(Run(ctl)))
cleanupC              == CommitC("cleanup", cleanup(Run(ctl)))

\* a suspended loop starter resumes: the trigger callback's promise settled
armC ==
    /\ ctl.arming > 0
    /\ CommitC("arm", Run(armTypingTimer([ctl EXCEPT !.arming = @ - 1])))

\* a loop starter suspended on a settled promise resumes
resumeC ==
    /\ ctl.resuming > 0
    /\ CommitC("arm", Run(armTypingTimer([ctl EXCEPT !.resuming = @ - 1])))

\* the callback of an interval timer (the one typingTimer refers to or a
\* leaked one)
typingTimerFireC ==
    /\ ctl.typingTimer # 0 \/ ctl.leaked > 0
    /\ ctl.resuming = 0
    /\ CommitC("tick", triggerTyping(Run(ctl)))

\* the callback of the TTL timeout
typingTtlTimerFireC ==
    /\ ctl.typingTtlTimer = "pending"
    /\ ctl.resuming = 0
    /\ LET c1 == [ctl EXCEPT !.typingTtlTimer = "fired"]
       IN  CommitC("ttl", IF c1.typingTimer = 0 THEN Run(c1)
                          ELSE cleanup(Run(c1)))

NextC ==
    \/ onReplyStartC
    \/ startThinkingLoopC
    \/ startTypingLoopC
    \/ \E text \in ReplyTexts : startTypingOnTextC(text)
    \/ refreshTypingTtlC
    \/ markRunCompleteC
    \/ markDispatchIdleC
    \/ transitionToFollowupC
    \/ resetForFollowupC
    \/ cleanupC
    \/ armC
    \/ resumeC
    \/ typingTimerFireC
    \/ typingTtlTimerFireC

(***************************************************************************)
(*                             specifications                              *)
(***************************************************************************)
Init     == InitT /\ InitP /\ InitR /\ InitC
InitWide == InitTWide /\ InitP /\ InitR /\ InitC

\* each component on its own: the other components' variables stay as
\* constructed
SpecText     == Init /\ [][NextT]_vars
SpecTextWide == InitWide /\ [][NextT]_vars
SpecPhase    == Init /\ [][NextP]_vars

\* the phase variant with its two read-only queries
NextQueries ==
    \/ NextP
    \/ \E key \in ThreadKeys : isThreadActiveCall(key)
    \/ \E key \in ThreadKeys : getCurrentStatusCall(key)
SpecQueries == Init /\ [][NextQueries]_vars
SpecRuns     == Init /\ [][NextR]_vars

\* the registry with the timers served: a waiter's pending setTimeout
\* callback is run by the event loop; nothing makes a caller register,
\* clear or wait
SpecRunsLive ==
    Init /\ [][NextR]_vars /\ \A w \in WaiterIds : WF_vars(waiterTimeout(w))

\* registrations and clears alone, with the history of the sessionKeys the
\* registered runs were given
InitAlias ==
    /\ InitT /\ InitP /\ InitC
    /\ ACTIVE_EMBEDDED_RUNS = [s \in SessionIds |-> NoHandle]
    /\ SESSION_KEY_TO_SESSION_ID = <<>>
    /\ EMBEDDED_RUN_WAITERS = <<>>
    /\ waiters = [w \in WaiterIds |-> NoWaiter]
    /\ evR = EvR("init", "", FALSE, {}, None, FALSE)
    /\ regKeyR = [s \in SessionIds |-> ""]
NextAlias ==
    \/ \E sid \in SessionIds, h \in RunHandles, key \in SessionKeys \cup {""} :
          setActiveEmbeddedRun(sid, h, key)
    \/ \E sid \in SessionIds, h \in RunHandles : clearActiveEmbeddedRun(sid, h)
SpecAlias == InitAlias /\ [][NextAlias]_vars

\* the registry with the calls that read it or signal a run
NextCalls ==
    \/ \E sid \in SessionIds, h \in RunHandles, key \in SessionKeys \cup {""} :
          setActiveEmbeddedRun(sid, h, key)
    \/ \E sid \in SessionIds :
          /\ Cardinality({w \in WaiterIds : waiters[w].st = "pending"})
                < MaxCallWaiters
          /\ waitForEmbeddedPiRunEnd(sid)
    \/ \E w \in WaiterIds : waiterTimeout(w)
    \/ \E sid \in SessionIds, h \in RunHandles : clearActiveEmbeddedRun(sid, h)
    \/ \E sid \in SessionIds, st \in BOOLEAN, cp \in BOOLEAN :
          queueEmbeddedPiMessage(sid, st, cp)
    \/ \E sid \in SessionIds : abortEmbeddedPiRun(sid)
    \/ \E sid \in SessionIds : isEmbeddedPiRunActive(sid)
    \/ \E sid \in SessionIds, st \in BOOLEAN : isEmbeddedPiRunStreaming(sid, st)
    \/ \E key \in SessionKeys : resolveActiveSessionIdCall(key)
SpecCalls == Init /\ [][NextCalls]_vars

\* the typing controller, for every choice of its parameters
InitTyping ==
    /\ InitT /\ InitP /\ InitR
    /\ paramsC \in ParamsC
    /\ ctl = NewController
    /\ evC = NoEvC
SpecTyping == InitTyping /\ [][NextC]_vars

\* the same with the timers and settled promises served: a due timer
\* callback runs and a call suspended on a settled promise resumes; nothing
\* makes the trigger callback's promise settle or a caller call
SpecTypingLive ==
    /\ InitTyping /\ [][NextC]_vars
    /\ WF_vars(typingTtlTimerFireC)
    /\ WF_vars(typingTimerFireC)
    /\ WF_vars(resumeC)

\* the two status managers: they share no state, and a behaviour runs one
\* of them
NextStatus ==
    \/ InitP /\ NextT
    \/ InitT /\ NextP
SpecStatus == Init /\ [][NextStatus]_vars

(***************************************************************************)
(*                                 claims                                  *)
(***************************************************************************)

\* C1: text variant: at most one call of the injected push function is in
\* flight per manager, counting the first push, the interval ticks and the
\* clearing empty-string push.
C1_AtMostOnePushInFlight == \A m \in MgrIds : InFlightT(m) <= 1

\* C2: a manager leaves the registry only with activeHandles = 0: no
\* manager that still has active handles is ever removed.
C2_RemovedOnlyWithoutHandles ==
    [][managersT # None /\ managersT' # managersT
          => mgrT'[managersT].activeHandles = 0]_vars

\* C3: text variant: once a handle was acquired while a grace timer was
\* pending for the key, no clearing (empty-string) push is issued as long as
\* that handle is unreleased.
C3_NoEmptyPushAfterHandoff ==
    ~(evT.once /\ evT.push = "" /\ handlesT.tracked # None)

\* C8: text variant: after the last handle is released with grace and nobody
\* re-acquires, only graceText is pushed during the window, then the empty
\* string, and no push follows the empty string.
C8_GraceThenOneClear ==
    \A m \in MgrIds : ghostT[m] \notin {"stray", "expired2"}

\* C9: text variant: when the last handle is released with shouldGrace()
\* false, the empty string is pushed exactly once, no grace window is opened
\* and no further push follows.
C9_NoGraceOneClear ==
    \A m \in MgrIds :
        /\ ghostT[m] # "nograce2"
        /\ ghostT[m] = "nograce" => ~mgrT[m].graceTimer

\* C6: phase variant: at most one call of the injected push function is in
\* flight per manager, whichever of setStatus, a counter tick or
\* pushCurrentStatus asked for it; a push asked for while one is in flight
\* is dropped: a call is started only by a handler that asked while none
\* was in flight, never by the completion of the earlier one.
C6_OnePushInFlightPhase ==
    /\ [](\A m \in PIds : mgrP[m].pushes <= 1)
    /\ [][\A m \in PIds :
             /\ mgrP'[m].pushes > mgrP[m].pushes
                   => mgrP[m].pushes = 0 /\ evP'.push # NoPushP
             /\ evP'.dropped => mgrP'[m].pushes = mgrP[m].pushes]_vars
C6_DroppedWhileInFlight ==
    evP.dropped /\ \E m \in PIds : mgrP[m].pushes = 1

\* C7: phase variant: every setStatus(phase) on an unreleased handle leaves
\* seconds at 0 and hands formatStatus(phase, 0) to the push function in
\* the same call, also while an earlier push has not completed.
C7_SetStatusAlwaysPushes ==
    evP.set # "none" =>
        /\ mgrP[managersP].seconds = 0
        /\ evP.push = formatStatus(evP.set, 0)

\* C4: a waitForEnd promise is resolved exactly once.  It is made resolved
\* true when no run is registered for the sessionId (or the sessionId is
\* empty), and pending otherwise; a pending one becomes true by a clear()
\* with the registered handle of its sessionId and false by its timeout,
\* and by nothing else; its timer is pending exactly while it is; a settled
\* one never changes again.
C4_ResolvesExactlyOnce ==
    /\ [](\A w \in WaiterIds :
            /\ waiters[w].calls <= 1
            /\ waiters[w].timer <=> waiters[w].st = "pending"
            /\ waiters[w].st \in {"true", "false"} => waiters[w].calls = 1
            /\ waiters[w].st = "pending" =>
                  /\ waiters[w].calls = 0
                  /\ hasRun(waiters[w].sid)
                  /\ waiters[w].sid \in DOMAIN EMBEDDED_RUN_WAITERS
                  /\ w \in EMBEDDED_RUN_WAITERS[waiters[w].sid])
    /\ [][\A w \in WaiterIds :
            /\ evR'.op = "wait" /\ evR'.made = w =>
                  /\ evR'.had <=> hasRun(evR'.sid)
                  /\ waiters'[w].st = IF evR'.had THEN "pending" ELSE "true"
            /\ waiters[w].st = "pending" /\ waiters'[w] # waiters[w] =>
                  \/ /\ evR'.op = "clear" /\ evR'.match
                     /\ evR'.sid = waiters[w].sid
                     /\ waiters'[w].st = "true"
                  \/ /\ evR'.op = "timeout" /\ evR'.made = w
                     /\ waiters'[w].st = "false"
            /\ waiters[w].st = "pending" /\ evR'.op = "clear" /\ evR'.match
                  /\ evR'.sid = waiters[w].sid => waiters'[w].st = "true"
            /\ waiters[w].st \in {"true", "false"} /\ waiters'[w] # waiters[w]
                  => evR'.op = "wait" /\ evR'.made = w]_vars
C4_OneEndedOneTimedOut ==
    /\ evR.op = "clear" /\ evR.match /\ evR.woken # {}
    /\ \A w \in evR.woken : waiters[w].st = "true"
    /\ \E w \in WaiterIds : waiters[w].st = "false"

\* C5: clear(sessionId, handle) with a handle that is not the one registered
\* for sessionId leaves the registered handles, the sessionKey aliases, the
\* waiter sets and every waiter (state and timer) as they were.
C5_ClearMismatchChangesNothing ==
    [][evR'.op = "clear" /\ ~evR'.match =>
          UNCHANGED <<ACTIVE_EMBEDDED_RUNS, SESSION_KEY_TO_SESSION_ID,
                      EMBEDDED_RUN_WAITERS, waiters>>]_vars
C5_MismatchWithRunAndWaiter ==
    /\ evR.op = "clear" /\ ~evR.match
    /\ hasRun(evR.sid)
    /\ \E i \in 1..Len(SESSION_KEY_TO_SESSION_ID) :
          SESSION_KEY_TO_SESSION_ID[i][2] = evR.sid
    /\ \E w \in WaiterIds : waiters[w].st = "pending" /\ waiters[w].sid = evR.sid

\* C10: a call on a released handle is inert in both variants: release(),
\* setStatus() and pause() on it leave the registry, every manager (its
\* activeHandles, timers, text or phase) and the other handles as they
\* were, and hand nothing to the push function.
C10_ReleasedHandleInert ==
    [][/\ evT'.inert =>
             /\ UNCHANGED <<managersT, mgrT, handlesT>>
             /\ evT'.push = NoPush
       /\ evP'.inert =>
             /\ UNCHANGED <<managersP, mgrP, handlesP>>
             /\ evP'.push = NoPushP]_vars
C10_CallOnReleasedHandle ==
    /\ evP.inert
    /\ managersP # None
    /\ mgrP[managersP].activeHandles > 0
    /\ mgrP[managersP].phase # "null"

\* C11: in both variants the activeHandles of every manager instance is
\* never negative and equals the number of handles acquired from it and not
\* yet released.
C11_ActiveHandlesCountsHandles ==
    /\ \A m \in MgrIds :
          /\ mgrT[m].activeHandles >= 0
          /\ mgrT[m].activeHandles = handlesT.unreleased[m]
    /\ \A m \in PIds :
          /\ mgrP[m].activeHandles >= 0
          /\ mgrP[m].activeHandles = handlesP.unreleased[m]
C11_TwoHeldAfterARelease ==
    /\ handlesT.lastReleased # None
    /\ \E m \in MgrIds :
          handlesT.unreleased[m] = 2 /\ mgrT[m].activeHandles = 2

\* C12: one clear() with the registered handle resolves every waiter pending
\* for that sessionId true in that call, cancels their timers and drops the
\* sessionId's waiter set; every other waiter is left exactly as it was.
C12_ClearResolvesAllWaiters ==
    [][evR'.op = "clear" /\ evR'.match =>
          /\ evR'.sid \notin DOMAIN EMBEDDED_RUN_WAITERS'
          /\ \A w \in WaiterIds :
                IF waiters[w].st = "pending" /\ waiters[w].sid = evR'.sid
                THEN /\ waiters'[w].st = "true"
                     /\ ~waiters'[w].timer
                     /\ w \in evR'.woken
                ELSE waiters'[w] = waiters[w]]_vars
C12_TwoWaitersResolvedTogether ==
    /\ evR.op = "clear" /\ evR.match
    /\ Cardinality(evR.woken) = 2
    /\ \A w \in evR.woken : waiters[w].st = "true" /\ waiters[w].sid = evR.sid

\* C13: register(sessionId, handle, sessionKey?) stores exactly the new
\* handle for sessionId, also when one was stored before, and leaves the
\* handles of other sessionIds alone; it invokes no method of any handle
\* (no abort of the prior one), resolves no waiter and touches no timer;
\* with a sessionKey the alias sessionKey -> sessionId is set and every other
\* alias is kept.
C13_RegisterReplaces ==
    [][\A sid \in SessionIds, h \in RunHandles, key \in SessionKeys \cup {""} :
          setActiveEmbeddedRun(sid, h, key) =>
             /\ ACTIVE_EMBEDDED_RUNS'[sid] = h
             /\ \A s \in SessionIds \ {sid} :
                   ACTIVE_EMBEDDED_RUNS'[s] = ACTIVE_EMBEDDED_RUNS[s]
             /\ evR'.called = NoCall
             /\ UNCHANGED <<EMBEDDED_RUN_WAITERS, waiters>>
             /\ key # "" => mapGet(SESSION_KEY_TO_SESSION_ID', key) = sid
             /\ \A k \in SessionKeys \ {key} :
                   mapGet(SESSION_KEY_TO_SESSION_ID', k)
                      = mapGet(SESSION_KEY_TO_SESSION_ID, k)]_vars
C13_ReplacedWithWaiterPending ==
    /\ evR.op = "register" /\ evR.had
    /\ mapGet(SESSION_KEY_TO_SESSION_ID, "k1") = evR.sid
    /\ \E w \in WaiterIds : waiters[w].st = "pending" /\ waiters[w].sid = evR.sid

\* C14: right after clear(sessionId, handle) with the registered handle no
\* sessionKey alias maps to sessionId, whatever was registered before.
C14_NoAliasAfterClear ==
    evR.op = "clear" /\ evR.match =>
        \A i \in 1..Len(SESSION_KEY_TO_SESSION_ID) :
            SESSION_KEY_TO_SESSION_ID[i][2] # evR.sid

\* C15: while a run that was registered with sessionKey K is still
\* registered, resolveActiveSessionId(K) returns the sessionId of a
\* registered run that was registered with K.
C15_KeyResolvesWhileRunActive ==
    \A s \in DOMAIN regKeyR :
        hasRun(s) /\ regKeyR[s] # "" =>
            resolveActiveSessionId(regKeyR[s]) # ""

\* C16: queueMessage(sessionId, text) returns true exactly when a handle is
\* registered for sessionId, its isStreaming() answers true and its
\* isCompacting() answers false, and then invokes that handle's queueMessage
\* once; otherwise it returns false and invokes nothing.  Either way the
\* run, alias and waiter maps and the waiters stay as they were.
C16_QueueOnlyWhenStreaming ==
    [][\A sid \in SessionIds, st \in BOOLEAN, cp \in BOOLEAN :
          queueEmbeddedPiMessage(sid, st, cp) =>
             /\ evR'.ret = IF hasRun(sid) /\ st /\ ~cp THEN "true" ELSE "false"
             /\ evR'.called = IF hasRun(sid) /\ st /\ ~cp
                              THEN <<"queueMessage", ACTIVE_EMBEDDED_RUNS[sid]>>
                              ELSE NoCall
             /\ UNCHANGED <<ACTIVE_EMBEDDED_RUNS, SESSION_KEY_TO_SESSION_ID,
                            EMBEDDED_RUN_WAITERS, waiters>>]_vars
C16_MessageForwarded ==
    /\ evR.op = "queue" /\ evR.ret = "true"
    /\ evR.called = <<"queueMessage", ACTIVE_EMBEDDED_RUNS[evR.sid]>>
    /\ \E w \in WaiterIds : waiters[w].st = "pending"

\* C17: abort(sessionId) returns false and invokes nothing when no handle
\* is registered; otherwise it invokes the registered handle's abort once
\* and returns true.  The run stays registered, the aliases stay, and every
\* waiter stays pending with its timer.
C17_AbortOnlySignals ==
    [][\A sid \in SessionIds :
          abortEmbeddedPiRun(sid) =>
             /\ evR'.ret = IF hasRun(sid) THEN "true" ELSE "false"
             /\ evR'.called = IF hasRun(sid)
                              THEN <<"abort", ACTIVE_EMBEDDED_RUNS[sid]>>
                              ELSE NoCall
             /\ UNCHANGED <<ACTIVE_EMBEDDED_RUNS, SESSION_KEY_TO_SESSION_ID,
                            EMBEDDED_RUN_WAITERS, waiters>>]_vars
C17_AbortedWithWaiterPending ==
    /\ evR.op = "abort" /\ evR.ret = "true"
    /\ evR.called = <<"abort", ACTIVE_EMBEDDED_RUNS[evR.sid]>>
    /\ \E w \in WaiterIds : waiters[w].st = "pending" /\ waiters[w].sid = evR.sid

\* C18: resolveActiveSessionId(sessionKey) returns a sessionId only if the
\* alias map sends sessionKey to it and it has a registered handle, and
\* not-found ("") whenever the key has no alias or a stale one; isActive
\* and isStreaming answer false for an unregistered sessionId; none of the
\* three changes the run, alias or waiter maps or a waiter.
C18_LookupsArePure ==
    [][/\ \A key \in SessionKeys :
             resolveActiveSessionIdCall(key) =>
                /\ evR'.ret # "" =>
                      /\ hasRun(evR'.ret)
                      /\ \E i \in 1..Len(SESSION_KEY_TO_SESSION_ID) :
                            SESSION_KEY_TO_SESSION_ID[i] = <<key, evR'.ret>>
                /\ evR'.ret = "" =>
                      \A i \in 1..Len(SESSION_KEY_TO_SESSION_ID) :
                         SESSION_KEY_TO_SESSION_ID[i][1] = key
                            => ~hasRun(SESSION_KEY_TO_SESSION_ID[i][2])
       /\ \A sid \in SessionIds :
             isEmbeddedPiRunActive(sid) =>
                evR'.ret = IF hasRun(sid) THEN "true" ELSE "false"
       /\ \A sid \in SessionIds, st \in BOOLEAN :
             isEmbeddedPiRunStreaming(sid, st) =>
                evR'.ret = IF hasRun(sid) /\ st THEN "true" ELSE "false"
       /\ evR'.op \in {"resolve", "isActive", "isStreaming"} =>
             UNCHANGED <<ACTIVE_EMBEDDED_RUNS, SESSION_KEY_TO_SESSION_ID,
                         EMBEDDED_RUN_WAITERS, waiters>>]_vars
C18_StaleAliasNotFound ==
    /\ evR.op = "resolve" /\ evR.ret = ""
    /\ mapGet(SESSION_KEY_TO_SESSION_ID, evR.sid) # ""
    /\ ~hasRun(mapGet(SESSION_KEY_TO_SESSION_ID, evR.sid))

\* C19: in every reachable state each waiter stored in the waiter map is
\* unresolved, has its timer pending and waits for the sessionId it is
\* stored under, and no sessionId maps to an empty set; a waiter that was
\* resolved (by a clear or by its timeout) has no timer and is in no set,
\* and an unresolved waiter is in the set of its sessionId.
C19_WaiterMapHoldsPendingOnly ==
    /\ \A s \in DOMAIN EMBEDDED_RUN_WAITERS :
          /\ EMBEDDED_RUN_WAITERS[s] # {}
          /\ \A w \in EMBEDDED_RUN_WAITERS[s] :
                /\ waiters[w].st = "pending"
                /\ waiters[w].timer
                /\ waiters[w].sid = s
    /\ \A w \in WaiterIds :
          /\ waiters[w].st \in {"true", "false"} =>
                /\ ~waiters[w].timer
                /\ \A s \in DOMAIN EMBEDDED_RUN_WAITERS :
                      w \notin EMBEDDED_RUN_WAITERS[s]
          /\ waiters[w].st = "pending" =>
                /\ waiters[w].sid \in DOMAIN EMBEDDED_RUN_WAITERS
                /\ w \in EMBEDDED_RUN_WAITERS[waiters[w].sid]
C19_TimedOutLeavesOtherStored ==
    /\ evR.op = "timeout"
    /\ waiters[evR.made].st = "false"
    /\ evR.sid \in DOMAIN EMBEDDED_RUN_WAITERS
    /\ \E w \in EMBEDDED_RUN_WAITERS[evR.sid] : waiters[w].st = "pending"

C21_EmptyPushBeforeDestroy ==
    [][\A m \in PIds :
          (/\ managersP = m /\ managersP' = None
           /\ mgrP[m].phase # "null") => evP'.push = <<"">>]_vars

\* C22: phase variant: pause() on an unreleased handle stops the counter
\* timer and leaves phase and seconds as they are (so no tick can follow);
\* the next setStatus(phase) on an unreleased handle after such a pause,
\* also with the phase the manager already has, leaves seconds at 0, hands
\* formatStatus(phase, 0) to the push function and, for thinking and
\* reasoning, starts the counter timer again.
C22_PauseThenSetStatusRestarts ==
    [][\A hd \in PIds \X {FALSE} :
          /\ pauseP(hd) =>
                /\ evP'.paused
                /\ ~mgrP'[hd[1]].counterTimer
                /\ mgrP'[hd[1]].phase = mgrP[hd[1]].phase
                /\ mgrP'[hd[1]].seconds = mgrP[hd[1]].seconds
                /\ evP'.push = NoPushP
          /\ \A ph \in StatusPhase :
                (evP.paused /\ setStatusP(hd, ph)) =>
                   /\ mgrP'[hd[1]].seconds = 0
                   /\ mgrP'[hd[1]].phase = ph
                   /\ evP'.push = formatStatus(ph, 0)
                   /\ mgrP'[hd[1]].counterTimer = (ph # "reading")]_vars

C24_SealedCallsAreNoOps ==
    [][/\ (ctl.sealed /\ ~ctl'.sealed) => evC'.op = "resetForFollowup"
       /\ (/\ ctl.sealed
           /\ evC'.op \in {"onReplyStart", "startThinkingLoop",
                           "startTypingLoop", "startTypingOnText",
                           "refreshTypingTtl", "markRunComplete",
                           "markDispatchIdle", "transitionToFollowup",
                           "cleanup"}) =>
              /\ ctl' = ctl
              /\ evC'.trig = 0 /\ evC'.clean = 0 /\ evC'.pc = "none"]_vars

\* C25: TypingController: an active controller is never sealed; a call of
\* markRunComplete() or markDispatchIdle() runs the cleanup (both timers
\* cleared, onCleanup invoked once, controller sealed) exactly when the
\* controller is active and the other of the two flags is already true,
\* whichever of the two calls it is; otherwise it clears no timer, does
\* not seal and does not invoke onCleanup.
C25_CleanupNeedsBothSignals ==
    /\ [](ctl.active => ~ctl.sealed)
    /\ [][evC'.op \in {"markRunComplete", "markDispatchIdle"} =>
             LET other == IF evC'.op = "markRunComplete"
                          THEN ctl.dispatchIdle ELSE ctl.runComplete
             IN  IF ctl.active /\ other
                 THEN /\ ctl'.sealed /\ ~ctl'.active
                      /\ ctl'.typingTimer = 0
                      /\ ctl'.typingTtlTimer = "undefined"
                      /\ evC'.clean = 1
                 ELSE /\ ctl'.sealed = ctl.sealed
                      /\ ctl'.typingTimer = ctl.typingTimer
                      /\ ctl'.typingTtlTimer = ctl.typingTtlTimer
                      /\ evC'.clean = 0]_vars
C25_DispatchIdleArrivedSecond ==
    /\ evC.op = "markDispatchIdle"
    /\ evC.clean = 1
    /\ ctl.sealed

\* C26: TypingController created with typingTtlMs > 0: whenever the
\* trigger timer is running, later either a TTL-refreshing operation
\* (startThinkingLoop, startTypingLoop, startTypingOnText,
\* refreshTypingTtl) is called or the trigger timer is cleared: with the
\* timers served, the loop does not run for ever without refreshes.
C26_TtlStopsUnrefreshedLoop ==
    [](( /\ paramsC.typingTtlMs > 0
         /\ ctl.typingTimer # 0) =>
           <>(\/ ctl.typingTimer = 0
              \/ evC.op \in {"startThinkingLoop", "startTypingLoop",
                             "startTypingOnText", "refreshTypingTtl"}))

\* C27 as stated: TypingController: a call of startTypingLoop() while the
\* phase is thinking and the trigger timer is running sets the phase to
\* typing, leaves the timer as it is, starts none and invokes the trigger
\* callback exactly once; a call while the phase is typing and the timer is
\* running invokes no trigger.
C27_UpgradeInPlace ==
    [][(evC'.op = "startTypingLoop" /\ ctl.typingTimer # 0) =>
          /\ ctl.phase = "thinking" =>
                /\ ctl'.phase = "typing"
                /\ evC'.trig = 1
          /\ ctl.phase = "typing" =>
                /\ ctl'.phase = "typing"
                /\ evC'.trig = 0
          /\ ctl'.typingTimer = ctl.typingTimer
          /\ ctl'.leaked = ctl.leaked
          /\ ctl'.arming = ctl.arming /\ ctl'.resuming = ctl.resuming]_vars

\* C27 amended: the same for calls made while runComplete is false: then
\* the upgrade from thinking also tells onPhaseChange("typing"); a call
\* made after markRunComplete() changes nothing and invokes no callback.
C27_UpgradeInPlaceBeforeRunComplete ==
    [][(evC'.op = "startTypingLoop" /\ ctl.typingTimer # 0) =>
          /\ (~ctl.runComplete /\ ctl.phase = "thinking") =>
                /\ ctl'.phase = "typing"
                /\ evC'.trig = 1
                /\ evC'.pc = "typing"
          /\ (~ctl.runComplete /\ ctl.phase = "typing") =>
                /\ ctl'.phase = "typing"
                /\ evC'.trig = 0
                /\ evC'.pc = "none"
          /\ ctl.runComplete =>
                /\ ctl' = ctl
                /\ evC'.trig = 0 /\ evC'.pc = "none"
          /\ ctl'.typingTimer = ctl.typingTimer
          /\ ctl'.leaked = ctl.leaked
          /\ ctl'.arming = ctl.arming /\ ctl'.resuming = ctl.resuming]_vars
C27_UpgradedWithTimerRunning ==
    /\ evC.op = "startTypingLoop"
    /\ evC.trig = 1 /\ evC.pc = "typing"
    /\ ctl.started
    /\ ctl.typingTimer # 0
    /\ ctl.arming = 0 /\ ctl.resuming = 0

\* C28: TypingController created with a trigger callback and a positive
\* interval: a call of transitionToFollowup() on an unsealed controller
\* runs no cleanup (no onCleanup, still unsealed), leaves runComplete false
\* and the phase thinking, and leaves exactly one interval timer alive: the
\* one typingTimer refers to, with period min(typingIntervalMs, 2000).
C28_FollowupRestartsOneShortTimer ==
    [][(/\ evC'.op = "transitionToFollowup"
        /\ ~ctl.sealed
        /\ paramsC.onReplyStart /\ typingIntervalMs > 0) =>
          /\ ~ctl'.sealed /\ evC'.clean = 0
          /\ ~ctl'.runComplete
          /\ ctl'.phase = "thinking"
          /\ ctl'.typingTimer =
                IF typingIntervalMs < 2000 THEN typingIntervalMs ELSE 2000
          /\ ctl'.leaked = 0]_vars

\* C29: TypingController: resetForFollowup() leaves typingTimer and
\* typingTtlTimer cleared, sealed, started, active, runComplete and
\* transitioning false, the phase unset and dispatchIdle true; dispatchIdle
\* then stays true until a cleanup runs; and a markRunComplete() on an
\* active controller whose dispatchIdle is true, set by the reset or by
\* markDispatchIdle(), runs the cleanup in that call.
C29_ResetLeavesDispatchIdle ==
    [][/\ evC'.op = "resetForFollowup" =>
             /\ ctl'.typingTimer = 0
             /\ ctl'.typingTtlTimer = "undefined"
             /\ ~ctl'.sealed /\ ~ctl'.started /\ ~ctl'.active
             /\ ~ctl'.runComplete /\ ~ctl'.transitioning
             /\ ctl'.phase = "undefined"
             /\ ctl'.dispatchIdle
             /\ evC'.trig = 0 /\ evC'.clean = 0 /\ evC'.pc = "none"
       /\ (ctl.dispatchIdle /\ ~ctl'.dispatchIdle) =>
             (~ctl.sealed /\ ctl'.sealed)
       /\ (evC'.op = "markRunComplete" /\ ctl.active /\ ctl.dispatchIdle) =>
             /\ ctl'.sealed
             /\ ctl'.typingTimer = 0
             /\ evC'.clean = 1]_vars
C29_RunCompleteAloneCleanedUp ==
    /\ evC.op = "markRunComplete"
    /\ evC.clean = 1
    /\ ctl.sealed
    /\ ~ctl.idleSignalled

\* C30: the release() of the last handle of a manager for which no status
\* was set (text variant: no push timer; phase variant: no phase) removes
\* the manager from the Map in that call, leaves it without grace timer and
\* push or counter timer, and hands nothing to the push function; a
\* phase-variant manager with no phase has never pushed and has no timer,
\* and after such a release of either variant nothing of a manager with no
\* push in flight remains (no timer, no pending callback).
C30_NeverSetDestroyedAtOnce ==
    /\ [](\A m \in PIds :
             mgrP[m].phase = "null" =>
                /\ mgrP[m].pushes = 0 /\ ~mgrP[m].pushing
                /\ mgrP[m].intervals = 0 /\ ~mgrP[m].graceTimer)
    /\ [][/\ \A hd \in PIds \X {FALSE}, g \in {"n/a", "true", "false"} :
                (/\ releaseP(hd, g)
                 /\ mgrP[hd[1]].activeHandles = 1
                 /\ mgrP[hd[1]].phase = "null") =>
                   /\ managersP' = None
                   /\ mgrP'[hd[1]] = NewManagerP
                   /\ evP'.push = NoPushP
          /\ \A hd \in MgrIds \X {FALSE}, tr \in BOOLEAN,
                g \in {"n/a", "true", "false"} :
                (/\ releaseT(hd, tr, g)
                 /\ mgrT[hd[1]].activeHandles = 1
                 /\ ~mgrT[hd[1]].pushTimer) =>
                   /\ managersT' = None
                   /\ ~mgrT'[hd[1]].graceTimer /\ ~mgrT'[hd[1]].pushTimer
                   /\ evT'.push = NoPush
                   /\ (mgrT[hd[1]].ticks = 0 /\ mgrT[hd[1]].clears = 0) =>
                         mgrT'[hd[1]] = NewManagerT]_vars
C30_ReleasedWithoutPhase ==
    /\ evP.unset
    /\ managersP = None
    /\ \A m \in PIds : mgrP[m] = NewManagerP

\* C31: a rejected push is caught and handed to onError and changes nothing
\* else: after the rejection of a tick's push (text variant) or of a pushOnce
\* (phase variant) the in-flight flag is clear, so a tick of the still running
\* timer pushes again, and the timers, activeHandles, the Map and the callers'
\* handles are as before; the rejected clearing push of the text variant
\* calls onError and leaves activeHandles and the handles alone (its finally
\* runs stopAndDestroy whether or not the push failed)
C31_RejectedPushIsSwallowed ==
    [][/\ \A m \in MgrIds : pushTickSettleT(m, TRUE) =>
            /\ evT'.onError
            /\ ~mgrT'[m].pushing
            /\ mgrT'[m].pushTimer = mgrT[m].pushTimer
            /\ mgrT'[m].graceTimer = mgrT[m].graceTimer
            /\ mgrT'[m].activeHandles = mgrT[m].activeHandles
            /\ managersT' = managersT /\ handlesT' = handlesT
            /\ mgrT'[m].pushTimer =>
                  pushTickT(mgrT'[m]).push = mgrT'[m].currentText
       /\ \A m \in MgrIds : pushOnceSettleT(m, TRUE) =>
            /\ evT'.onError
            /\ mgrT'[m].activeHandles = mgrT[m].activeHandles
            /\ handlesT' = handlesT
       /\ \A m \in PIds : pushSettleP(m, TRUE) =>
            /\ evP'.onError
            /\ ~mgrP'[m].pushing
            /\ mgrP'[m].counterTimer = mgrP[m].counterTimer
            /\ mgrP'[m].intervals = mgrP[m].intervals
            /\ mgrP'[m].graceTimer = mgrP[m].graceTimer
            /\ mgrP'[m].activeHandles = mgrP[m].activeHandles
            /\ managersP' = managersP /\ handlesP' = handlesP
            /\ mgrP'[m].counterTimer =>
                  pushOnceP(mgrP'[m], formatStatus(mgrP'[m].phase,
                                                   mgrP'[m].seconds)).push
                     # NoPushP
      ]_vars

\* a push was rejected and the loop of the manager goes on: its timer runs,
\* a handle is held, no push is in flight
C31_LoopRunsAfterRejection ==
    \/ /\ evT.onError /\ managersT # None
       /\ mgrT[managersT].pushTimer /\ mgrT[managersT].activeHandles > 0
       /\ ~mgrT[managersT].pushing
    \/ /\ evP.onError /\ managersP # None
       /\ mgrP[managersP].counterTimer /\ mgrP[managersP].activeHandles > 0
       /\ ~mgrP[managersP].pushing

\* C32: isThreadActive(key) is true exactly when the Map holds a manager for
\* the key whose activeHandles is above 0, which is exactly while a caller
\* holds an unreleased handle: false for a key never acquired, during the
\* grace window and after destroy; getCurrentStatus(key) is the formatted
\* text of the manager's phase and seconds, and null without a manager or
\* without a phase; a call of either leaves the Map, the managers and the
\* handles as they were
C32_QueriesReadTheMap ==
    /\ [](/\ isThreadActive(ThreadKey) <=>
                (managersP # None /\ mgrP[managersP].activeHandles > 0)
          /\ isThreadActive(ThreadKey) <=> HeldP > 0
          /\ \A key \in ThreadKeys \ {ThreadKey} :
                ~isThreadActive(key) /\ getCurrentStatus(key) = "null"
          /\ managersP # None /\ mgrP[managersP].graceTimer =>
                ~isThreadActive(ThreadKey)
          /\ managersP = None =>
                ~isThreadActive(ThreadKey)
                /\ getCurrentStatus(ThreadKey) = "null"
          /\ managersP # None =>
                getCurrentStatus(ThreadKey) =
                   IF mgrP[managersP].phase = "null" THEN "null"
                   ELSE formatStatus(mgrP[managersP].phase,
                                     mgrP[managersP].seconds))
    /\ [][/\ \A key \in ThreadKeys : isThreadActiveCall(key) =>
               /\ evP'.ret = <<"isThreadActive", key, isThreadActive(key)>>
               /\ UNCHANGED <<managersP, mgrP, handlesP>>
          /\ \A key \in ThreadKeys : getCurrentStatusCall(key) =>
               /\ evP'.ret = <<"getCurrentStatus", key, getCurrentStatus(key)>>
               /\ UNCHANGED <<managersP, mgrP, handlesP>>
         ]_vars

\* isThreadActive answered false in the grace window of a manager whose
\* status is "thinking ..."
C32_AskedDuringGrace ==
    /\ evP.ret = <<"isThreadActive", ThreadKey, FALSE>>
    /\ managersP # None /\ mgrP[managersP].graceTimer
    /\ getCurrentStatus(ThreadKey)[1] = PHASE_LABELS.thinking

\* C33: a manager's push timer (text variant) or counter timer (phase
\* variant) exists only while its activeHandles is above 0 or its grace timer
\* is pending, and the step in which a grace timer fires removes the manager
\* from the Map
C33_TimerOnlyWhileHeldOrGrace ==
    /\ [](/\ \A m \in MgrIds :
                mgrT[m].pushTimer =>
                   mgrT[m].activeHandles > 0 \/ mgrT[m].graceTimer
          /\ \A m \in PIds :
                mgrP[m].intervals > 0 =>
                   mgrP[m].activeHandles > 0 \/ mgrP[m].graceTimer)
    /\ [][/\ \A m \in MgrIds : graceTimerFireT(m) => managersT' # m
          /\ \A m \in PIds : graceTimerFireP(m) => managersP' # m]_vars

\* C34: a controller never has more than one trigger interval timer running
\* (the one typingTimer refers to plus those no longer referenced), whatever
\* the overlap of startThinkingLoop, startTypingLoop and transitionToFollowup
\* with a call still awaiting the trigger callback; so no trigger timer runs
\* while the controller is sealed by cleanup(), nor right after
\* resetForFollowup()
C34_AtMostOneTriggerTimer ==
    /\ []((IF ctl.typingTimer # 0 THEN 1 ELSE 0) + ctl.leaked <= 1)
    /\ [](ctl.sealed => ctl.typingTimer = 0 /\ ctl.leaked = 0)
    /\ [][evC'.op = "resetForFollowup" =>
             ctl'.typingTimer = 0 /\ ctl'.leaked = 0]_vars

\* C35: of the managers ever built for the key at most one is alive (has an
\* unreleased handle or a running push or grace timer) at any time; a step
\* that destroys a manager changes the Map only if that manager is the one
\* registered; and an acquire that finds no entry registers a fresh manager
\* with activeHandles = 1, no status text and no timer
C35_OneLiveManagerPerKey ==
    /\ [](\A m1, m2 \in MgrIds :
            /\ handlesT.unreleased[m1] > 0
               \/ mgrT[m1].pushTimer \/ mgrT[m1].graceTimer
            /\ handlesT.unreleased[m2] > 0
               \/ mgrT[m2].pushTimer \/ mgrT[m2].graceTimer
            => m1 = m2)
    /\ [][/\ \A m \in MgrIds, rejected \in BOOLEAN :
               pushOnceSettleT(m, rejected) /\ managersT # m =>
                  managersT' = managersT
          /\ acquireThreadStatusT /\ managersT = None =>
               /\ managersT' # None
               /\ mgrT'[managersT'] = [NewManagerT EXCEPT !.activeHandles = 1]
         ]_vars

C37_NoTimerSurvivesDestroy ==
    /\ [](\A m \in PIds :
             managersP # m =>
                /\ mgrP[m].intervals = 0 /\ ~mgrP[m].counterTimer
                /\ ~mgrP[m].graceTimer)
    /\ [][/\ \A m \in PIds :
               managersP = m /\ managersP' # m =>
                  /\ mgrP'[m].intervals = 0 /\ ~mgrP'[m].counterTimer
                  /\ ~mgrP'[m].graceTimer
                  /\ evP'.push = NoPushP
          /\ \A m \in PIds :
               counterTimerFireP(m) \/ graceTimerFireP(m) => managersP = m
         ]_vars

\* a manager whose counter has ticked in phase "thinking" was destroyed by
\* the release of its last handle while a push of it was still in flight
C37_DestroyedWithPushInFlight ==
    \E m \in PIds :
       /\ managersP = None /\ handlesP.lastReleased = m
       /\ mgrP[m].phase = "thinking" /\ mgrP[m].seconds >= 1
       /\ mgrP[m].pushes > 0
       /\ ~mgrP[m].graceTimer /\ mgrP[m].intervals = 0

\* C38: TypingController: while runComplete is set (from markRunComplete()
\* until transitionToFollowup() or resetForFollowup() clears it), and
\* likewise once the cleanup that markRunComplete() may run has sealed the
\* controller, a call of onReplyStart, startThinkingLoop, startTypingLoop or
\* startTypingOnText does not invoke the trigger callback, starts no trigger
\* timer and suspends no caller that would start one, and leaves the phase
\* and the active flag as they are
C38_LateCallsAfterRunComplete ==
    [][(/\ ctl.runComplete \/ ctl.sealed
        /\ evC'.op \in {"onReplyStart", "startThinkingLoop",
                        "startTypingLoop", "startTypingOnText"})
       => /\ evC'.trig = 0
          /\ evC'.pc = "none"
          /\ ctl'.typingTimer = ctl.typingTimer
          /\ ctl'.leaked = ctl.leaked
          /\ ctl'.arming = ctl.arming /\ ctl'.resuming = ctl.resuming
          /\ ctl'.phase = ctl.phase
          /\ ctl'.active = ctl.active
          /\ isActive(ctl') = isActive(ctl)
          /\ ctl'.started = ctl.started
      ]_vars

\* startTypingLoop was called after markRunComplete() with the dispatcher
\* still busy: the controller is active in phase thinking with its one
\* trigger timer running, and not sealed
C38_LateTypingStart ==
    /\ evC.op = "startTypingLoop"
    /\ ctl.runComplete /\ ~ctl.sealed /\ ~ctl.dispatchIdle
    /\ ctl.active /\ ctl.phase = "thinking"
    /\ ctl.typingTimer # 0 /\ ctl.leaked = 0
    /\ ctl.arming = 0 /\ ctl.resuming = 0

\* C39: TypingController: between two resetForFollowup() calls (and from
\* construction to the first) onCleanup is invoked at most once, and a
\* handler invokes it only when the controller was active and not sealed as
\* the handler began, whichever of cleanup(), the TTL expiry,
\* markRunComplete() and markDispatchIdle() ran the cleanup
C39_OnCleanupAtMostOncePerCycle ==
    /\ [](ctl.cleanups <= 1)
    /\ [][evC'.clean > 0 =>
             /\ evC'.clean = 1
             /\ ctl.active /\ ~ctl.sealed
             /\ evC'.op \in {"cleanup", "ttl", "markRunComplete",
                             "markDispatchIdle"}]_vars

\* cleanup() was called on a controller that an earlier handler had already
\* cleaned up with an onCleanup call, and did not call onCleanup again
C39_CleanupAfterCleanup ==
    /\ evC.op = "cleanup" /\ evC.clean = 0
    /\ ctl.cleanups = 1 /\ ctl.sealed

\* C40: every promise waitForEnd returns is eventually settled, whether or
\* not the run is ever cleared and whether or not its handle is replaced: a
\* pending promise always has its own timeout pending, and that timeout's
\* callback settles a still pending promise with false
C40_EveryWaitResolves ==
    /\ \A w \in WaiterIds :
          waiters[w].st = "pending" ~> waiters[w].st \in {"true", "false"}
    /\ [](\A w \in WaiterIds : waiters[w].st = "pending" => waiters[w].timer)
    /\ [][\A w \in WaiterIds :
             waiterTimeout(w) /\ waiters[w].st = "pending" =>
                waiters'[w].st = "false" /\ ~waiters'[w].timer]_vars

\* a waiter's timeout settled its promise with false while the run it waited
\* for was still registered
C40_TimedOutWhileRunRegistered ==
    \E w \in WaiterIds :
       /\ evR.op = "timeout" /\ evR.made = w
       /\ waiters[w].st = "false" /\ waiters[w].calls = 1
       /\ hasRun(waiters[w].sid)
================================================================================
